---- MODULE Spec2Model ----
(***************************************************************************)
(* Ledger core of InvestWise: funds, members, projects and transactions,   *)
(* and the controller operations that move money between them.  Money is   *)
(* counted in integer cents (1000.00 is 100000).  Every controller         *)
(* operation runs inside one database session, so one operation is one     *)
(* atomic action: it either commits all of its writes or none of them.     *)
(* A request is followed by the delivery of its response (nextRequest)     *)
(* before the next request is served.                                      *)
(***************************************************************************)
EXTENDS Integers, Sequences, FiniteSets, TLC

VARIABLES
    funds,      \* Fund documents: id -> [balance, type, reconciliationStatus]
    members,    \* Member documents: id -> [shares, totalContributed, status]
    projects,   \* Project documents: id -> [currentFundBalance, ...]
    txs,        \* the live Transaction documents
    nextId,     \* the id the next Transaction document gets
    deleted,    \* DeletedRecord snapshots (the reversal archive)
    last,       \* the request being answered, or Idle
    room,       \* how many more Transaction documents the run may create
    undo,       \* the balances before the last applied operation (history)
    sessions,   \* the open database sessions of requests served concurrently
    auditLog    \* the AuditLog documents the request being answered wrote

ledger == <<funds, members, projects, txs, nextId, deleted>>
vars ==
    <<funds, members, projects, txs, nextId, deleted, last, room, undo,
      sessions, auditLog>>

(* ------------------------------ bounds --------------------------------- *)

\* Transaction documents a run may create, per specification.
MaxTx == 2
MaxTxDeposit == 2
MaxTxProject == 2
MaxTxMoney == 3
MaxTxDividend == 3
MaxTxEquity == 3
MaxTxUndo == 3
MaxTxReconcile == 2
MaxTxApproval == 2
MaxTxRace == 3
MaxTxPurge == 3
MaxTxScope == 1
MaxTxFund == 2
MaxTxEdit == 2
MaxTxContribution == 2
MaxTxSign == 2
MaxTxReconcileRace == 2
MaxTxHoldings == 3
MaxTxBulk == 4
MaxTxExpenseEdit == 2
MaxTxFinancials == 3
MaxTxResidual == 3
\* Entries in one transferEquity request.
MaxTransfers == 2
\* Entries in one bulkAddDeposits request.
MaxBulk == 2

(* ----------------------------- constants ------------------------------- *)

\* Cents per currency unit.
Cent == 100
\* createMember: totalContributed = shares * 1000, "assuming 1000 per share".
SharePrice == 1000
\* deleteTransaction: "Revert shares estimate (1000 per share ...)".
ShareEstimate == 1000

None == "none"
NoError == "ok"

FundIds == {"F1", "F2", "PF"}
MemberIds == {"M1", "M2", "M3"}
ProjectIds == {"P1"}
\* req.user of the requests: deposits are approved by the admin.
Cashier == "cashier"
Admin == "admin"

\* Amounts offered to the operations, in cents: 1000.00 and 400.50.
Amounts == {100000, 40050}
\* Opening balance of fund F1, in cents.
OpeningBalance == 1000 * Cent

CompletedStatuses == {"Success", "Completed"}

IsCompleted(status) == status \in CompletedStatuses

(* ------------------------------ helpers -------------------------------- *)

Max(a, b) == IF a > b THEN a ELSE b

RECURSIVE SumOver(_, _)
\* Sum of f[x] for x in the finite set S (Array.prototype.reduce with +).
SumOver(S, f) ==
    IF S = {} THEN 0
    ELSE LET x == CHOOSE y \in S : TRUE IN f[x] + SumOver(S \ {x}, f)

\* f extended (or overwritten) at key k.
Put(f, k, v) == [x \in DOMAIN f \cup {k} |-> IF x = k THEN v ELSE f[x]]

\* The sequence s without its i-th element.
Without(s, i) == SubSeq(s, 1, i - 1) \o SubSeq(s, i + 1, Len(s))

\* A stored Transaction document.  snapshot is <<balanceBefore, balanceAfter>>
\* or << >> when the operation stores no snapshot.
Tx(id, type, amount, status, fundId, memberId, projectId, snapshot, user, ref) ==
    [id |-> id, type |-> type, amount |-> amount, status |-> status,
     fundId |-> fundId, memberId |-> memberId, projectId |-> projectId,
     snapshot |-> snapshot, authorizedBy |-> user, referenceNumber |-> ref]

\* The live transaction with the given id.
TxById(id) == CHOOSE t \in txs : t.id = id
TxIds == {t.id : t \in txs}

\* The outcome of a request: committed says whether the session committed,
\* ok whether the caller received a success response, error the message of
\* the error response; args keeps the arguments of a committed request.
Response(op, committed, ok, error, args) ==
    [op |-> op, committed |-> committed, ok |-> ok, error |-> error,
     args |-> args]

\* No request is being answered.
Idle == Response("idle", FALSE, FALSE, NoError, << >>)

Ready == last = Idle

\* The validators switched off: every Member document is saved.
MemberValidAlways(m) == m = m

\* Mongoose min-validators of the Member schema, run by member.save().
MemberValid(m) == m.shares >= 0 /\ m.totalContributed >= 0

\* Mongoose min-validator of Transaction.amount, run by create and save.
TxAmountValid(amount) == amount >= 0

\* The balances transaction deletion is meant to restore.
Balances ==
    [funds |-> [f \in DOMAIN funds |-> funds[f].balance],
     members |-> [m \in DOMAIN members |->
                    <<members[m].totalContributed, members[m].shares>>],
     projects |-> [p \in DOMAIN projects |->
                    <<projects[p].currentFundBalance,
                      projects[p].totalEarnings, projects[p].totalExpenses>>]]

NoUndo(on) == [on |-> on, active |-> FALSE, pre |-> << >>, left |-> {}]

\* The operations whose records transaction deletion is meant to undo.
AppliedOps ==
    {"addDeposit", "addExpense", "addEarning", "distributeDividends",
     "transferEquity", "transferFunds"}

\* History of "apply, then delete": one of the AppliedOps opens it with the
\* balances it found and the records it created; deleting one of those
\* records strikes it off; any other committed operation ends it.
Track(op, struck, created) ==
    IF ~undo.on THEN undo
    ELSE IF op \in AppliedOps
    THEN [on |-> TRUE, active |-> TRUE, pre |-> Balances, left |-> created]
    ELSE IF /\ op = "deleteTransaction" /\ undo.active
            /\ struck \subseteq undo.left
    THEN [undo EXCEPT !.left = @ \ struck]
    ELSE NoUndo(FALSE)

\* The history is kept and no operation has been applied yet.
Fresh == undo.on /\ ~undo.active

(* --------------------------- shared steps ------------------------------ *)

\* fund.balance += amount; fund.save()
CreditFund(fs, f, amount) == [fs EXCEPT ![f].balance = @ + amount]
\* fund.balance -= amount; fund.save()
DebitFund(fs, f, amount) == [fs EXCEPT ![f].balance = @ - amount]
\* member.totalContributed += amount
CreditMember(ms, m, amount) == [ms EXCEPT ![m].totalContributed = @ + amount]
\* member.totalContributed -= amount
DebitMember(ms, m, amount) == [ms EXCEPT ![m].totalContributed = @ - amount]

\* The handlers that write their AuditLog document inside the session
\* (AuditLog.create([...], { session })): a failed write aborts the request.
AuditInSession ==
    {"editDeposit", "editExpense", "distributeDividends", "transferEquity",
     "bulkAddDeposits", "addProjectUpdate", "editProjectUpdate",
     "deleteProjectUpdate"}
\* The handlers that call logAudit after commitTransaction() and
\* recalculateAllStats(): when the recalculation throws, the call is skipped.
AuditAfterCommit == {"deleteTransaction", "transferFunds", "deleteProject"}
\* The AuditLog documents a committed request writes; every other handler
\* (addDeposit, approveDeposit, addExpense, addEarning, ...) writes none.
AuditEntries(op, user, env) ==
    IF \/ op \in AuditInSession
       \/ op \in AuditAfterCommit /\ env # "statsFail"
    THEN {[user |-> user, action |-> op]}
    ELSE {}

\* The request is refused or its session aborted: nothing is written and
\* the caller gets the error.
Reject(op, error) ==
    /\ last' = Response(op, FALSE, FALSE, error, << >>)
    /\ auditLog' = {}
    /\ UNCHANGED <<funds, members, projects, txs, nextId, deleted, room, undo,
                 sessions>>

\* Reject, with the arguments of the refused request kept in the response.
RejectRequest(op, error, args) ==
    /\ last' = Response(op, FALSE, FALSE, error, args)
    /\ auditLog' = {}
    /\ UNCHANGED <<funds, members, projects, txs, nextId, deleted, room, undo,
                 sessions>>

\* await session.commitTransaction(); await recalculateAllStats();
\* res.json(...), all inside the try block: when the recomputation throws
\* after the commit, the catch block answers with the error.  struck holds
\* the transaction the request deleted, if any.
Respond(op, user, args, struck, env) ==
    /\ last' = IF env = "statsFail"
               THEN Response(op, TRUE, FALSE, "stats", args)
               ELSE Response(op, TRUE, TRUE, NoError, args)
    /\ room' = room - (nextId' - nextId)
    /\ undo' = Track(op, struck, nextId..(nextId' - 1))
    /\ auditLog' = AuditEntries(op, user, env)
    /\ UNCHANGED sessions

\* The response is delivered; the next request can be served.
nextRequest ==
    /\ ~Ready
    /\ last' = Idle
    /\ auditLog' = {}
    /\ UNCHANGED <<funds, members, projects, txs, nextId, deleted, room, undo,
                 sessions>>

\* What the environment does to a request: nothing, fail the write of the
\* audit entry, or fail the recomputation of the statistics.
Env == {"ok", "auditFail", "statsFail"}
\* For the operations that write no audit entry inside their session.
EnvNoAudit == {"ok", "statsFail"}

\* Room for n more Transaction documents within the bound of the run.
Room(n) == n <= room

(* ------------------------------ deposits ------------------------------- *)

\* status || 'Completed': the status stored on a new deposit.
StoredDepositStatus(status) == IF status = None THEN "Completed" ELSE status

\* The impact applied whatever status the request carries.
DepositAppliesAlways(status) == status = status

\* (status === 'Success' || status === 'Completed'), on the request's status.
DepositApplies(status) == IsCompleted(status)

\* balanceAfter of a new deposit.
DepositBalanceAfter(status, balanceBefore, amount) ==
    IF IsCompleted(status) THEN balanceBefore + amount ELSE balanceBefore

\* The first check of addDeposit that fails.
addDepositError(m, amount, f, status) ==
    IF amount <= 0 THEN "invalid"
    ELSE IF m = None THEN "memberRequired"
    ELSE IF f \notin DOMAIN funds \/ m \notin DOMAIN members THEN "notFound"
    ELSE IF ~TxAmountValid(amount) THEN "validation"
    ELSE IF DepositApplies(status)
            /\ ~MemberValid(CreditMember(members, m, amount)[m])
    THEN "validation"
    ELSE NoError

addDeposit(m, amount, f, status, user, env) ==
    LET error == addDepositError(m, amount, f, status)
    IN
    /\ Ready
    /\ Room(1)
    /\ IF error # NoError
       THEN Reject("addDeposit", error)
       ELSE LET balanceBefore == funds[f].balance
                tx == Tx(nextId, "Deposit", amount,
                         StoredDepositStatus(status), f, m, None,
                         <<balanceBefore,
                           DepositBalanceAfter(status, balanceBefore, amount)>>,
                         user, 0)
            IN /\ txs' = txs \cup {tx}
               /\ nextId' = nextId + 1
               /\ funds' = IF DepositApplies(status)
                           THEN CreditFund(funds, f, amount)
                           ELSE funds
               /\ members' = IF DepositApplies(status)
                             THEN CreditMember(members, m, amount)
                             ELSE members
               /\ UNCHANGED <<projects, deleted>>
               /\ Respond("addDeposit", user,
                          [member |-> m, amount |-> amount, fund |-> f,
                           status |-> status],
                          {}, env)

\* AlreadyApproved with the check left out: nothing counts as approved.
AlreadyApprovedNever(t) == FALSE

\* Whether approveDeposit refuses the transaction as already approved.
AlreadyApproved(t) == IsCompleted(t.status)

\* The transaction document as approveDeposit saves it.
ApprovedTx(t, user) == [t EXCEPT !.status = "Completed", !.authorizedBy = user]

\* The first check of approveDeposit that fails.
approveDepositError(id) ==
    IF id \notin TxIds THEN "notFound"
    ELSE LET t == TxById(id)
         IN IF AlreadyApproved(t) THEN "alreadyApproved"
            ELSE IF t.fundId \notin DOMAIN funds
                    \/ t.memberId \notin DOMAIN members
            THEN "notFound"
            ELSE IF ~MemberValid(
                       CreditMember(members, t.memberId, t.amount)[t.memberId])
                    \/ ~TxAmountValid(t.amount)
            THEN "validation"
            ELSE NoError

approveDeposit(id, user, env) ==
    LET error == approveDepositError(id)
    IN
    /\ Ready
    /\ IF error # NoError
       THEN Reject("approveDeposit", error)
       ELSE LET t == TxById(id)
            IN /\ funds' = CreditFund(funds, t.fundId, t.amount)
               /\ members' = CreditMember(members, t.memberId, t.amount)
               /\ txs' = (txs \ {t}) \cup {ApprovedTx(t, user)}
               /\ UNCHANGED <<projects, nextId, deleted>>
               /\ Respond("approveDeposit", user,
                          [tx |-> id],
                          {}, env)

\* parseInt(amount): the amount cut down to whole currency units.
ParseInt(amount) ==
    IF amount >= 0 THEN (amount \div Cent) * Cent
    ELSE -(((-amount) \div Cent) * Cent)

\* editDeposit, step 1: the old impact of a completed deposit taken back.
DepositReverted(t) ==
    LET isCompleted == IsCompleted(t.status)
    IN [funds |-> IF isCompleted /\ t.fundId \in DOMAIN funds
                  THEN DebitFund(funds, t.fundId, t.amount) ELSE funds,
        members |-> IF isCompleted /\ t.memberId \in DOMAIN members
                    THEN DebitMember(members, t.memberId, t.amount)
                    ELSE members]

\* The first check of editDeposit that fails.
editDepositError(id, m, amount, f, env) ==
    IF id \notin TxIds THEN "notFound"
    ELSE LET t == TxById(id)
             isCompleted == IsCompleted(t.status)
             old == DepositReverted(t)
             newAmount == ParseInt(amount)
         IN IF t.type # "Deposit" THEN "wrongType"
            ELSE IF isCompleted /\ t.memberId \in DOMAIN members
                    /\ ~MemberValid(old.members[t.memberId])
            THEN "validation"
            ELSE IF f \notin DOMAIN funds \/ m \notin DOMAIN members
            THEN "notFound"
            ELSE IF isCompleted
                    /\ ~MemberValid(CreditMember(old.members, m, newAmount)[m])
            THEN "validation"
            ELSE IF ~TxAmountValid(newAmount) THEN "validation"
            ELSE IF env = "auditFail" THEN "audit"
            ELSE NoError

editDeposit(id, m, amount, f, user, env) ==
    LET error == editDepositError(id, m, amount, f, env)
    IN
    /\ Ready
    /\ IF error # NoError
       THEN Reject("editDeposit", error)
       ELSE LET t == TxById(id)
                isCompleted == IsCompleted(t.status)
                old == DepositReverted(t)
                newAmount == ParseInt(amount)
            IN /\ funds' = IF isCompleted
                           THEN CreditFund(old.funds, f, newAmount)
                           ELSE old.funds
               /\ members' = IF isCompleted
                             THEN CreditMember(old.members, m, newAmount)
                             ELSE old.members
               /\ txs' = (txs \ {t}) \cup
                     {[t EXCEPT !.amount = newAmount, !.fundId = f,
                                !.memberId = m]}
               /\ UNCHANGED <<projects, nextId, deleted>>
               /\ Respond("editDeposit", user,
                          [tx |-> id, member |-> m, amount |-> amount,
                           fund |-> f],
                          {}, env)

(* ------------------------- expenses and earnings ----------------------- *)

\* One inline entry of project.updates.
Update(type, amount, snapshot) ==
    [type |-> type, amount |-> amount, snapshot |-> snapshot]

\* addExpense's project side: currentFundBalance -= amount, totalExpenses +=
\* amount, and one Expense entry pushed onto project.updates.
ExpenseOnProject(ps, p, amount) ==
    [ps EXCEPT ![p] =
        [@ EXCEPT !.currentFundBalance = @ - amount,
                  !.totalExpenses = @ + amount,
                  !.updates = Append(@, Update("Expense", amount,
                        <<ps[p].currentFundBalance,
                          ps[p].currentFundBalance - amount>>))]]

\* addEarning's project side without the entry pushed onto project.updates.
EarningOnProjectUnlogged(ps, p, amount) ==
    [ps EXCEPT ![p] =
        [@ EXCEPT !.currentFundBalance = @ + amount,
                  !.totalEarnings = @ + amount]]

\* addEarning's project side.
EarningOnProject(ps, p, amount) ==
    [ps EXCEPT ![p] =
        [@ EXCEPT !.currentFundBalance = @ + amount,
                  !.totalEarnings = @ + amount,
                  !.updates = Append(@, Update("Earning", amount,
                        <<ps[p].currentFundBalance,
                          ps[p].currentFundBalance + amount>>))]]

\* Affordable with the comparison dropped: every amount passes.
AffordableUnchecked(fund, amount) == TRUE

\* if (fund.balance < amount) throw 'Insufficient balance'
Affordable(fund, amount) == ~(fund.balance < amount)

\* Project-specific funds cannot be used for general expenses.
GeneralOnProjectFund(fund, p) == p = None /\ fund.type = "PROJECT"

\* The first check of addExpense that fails.
addExpenseError(amount, f, p) ==
    IF f \notin DOMAIN funds THEN "notFound"
    ELSE IF GeneralOnProjectFund(funds[f], p) THEN "projectFund"
    ELSE IF ~Affordable(funds[f], amount) THEN "insufficient"
    ELSE IF p # None /\ p \notin DOMAIN projects THEN "notFound"
    ELSE IF ~TxAmountValid(amount) THEN "validation"
    ELSE NoError

addExpense(amount, f, p, user, env) ==
    LET error == addExpenseError(amount, f, p)
    IN
    /\ Ready
    /\ Room(1)
    /\ IF error # NoError
       THEN Reject("addExpense", error)
       ELSE LET balanceBefore == IF p # None
                                 THEN projects[p].currentFundBalance
                                 ELSE funds[f].balance
                newProjects == IF p # None
                               THEN ExpenseOnProject(projects, p, amount)
                               ELSE projects
                newFunds == DebitFund(funds, f, amount)
                balanceAfter == IF p # None
                                THEN newProjects[p].currentFundBalance
                                ELSE newFunds[f].balance
            IN /\ projects' = newProjects
               /\ funds' = newFunds
               /\ txs' = txs \cup
                    {Tx(nextId, "Expense", amount, "Success", f, None, p,
                        <<balanceBefore, balanceAfter>>, user, 0)}
               /\ nextId' = nextId + 1
               /\ UNCHANGED <<members, deleted>>
               /\ Respond("addExpense", user,
                          [amount |-> amount, fund |-> f, project |-> p],
                          {}, env)

\* The first check of addEarning that fails.
addEarningError(amount, f, p) ==
    IF amount <= 0 THEN "invalid"
    ELSE IF f \notin DOMAIN funds THEN "notFound"
    ELSE IF p # None /\ p \notin DOMAIN projects THEN "notFound"
    ELSE NoError

addEarning(amount, f, p, user, env) ==
    LET error == addEarningError(amount, f, p)
    IN
    /\ Ready
    /\ Room(1)
    /\ IF error # NoError
       THEN Reject("addEarning", error)
       ELSE LET balanceBefore == IF p # None
                                 THEN projects[p].currentFundBalance
                                 ELSE funds[f].balance
                newFunds == CreditFund(funds, f, amount)
                newProjects == IF p # None
                               THEN EarningOnProject(projects, p, amount)
                               ELSE projects
                balanceAfter == IF p # None
                                THEN newProjects[p].currentFundBalance
                                ELSE newFunds[f].balance
            IN /\ funds' = newFunds
               /\ projects' = newProjects
               /\ txs' = txs \cup
                    {Tx(nextId, "Earning", amount, "Success", f, None, p,
                        <<balanceBefore, balanceAfter>>, user, 0)}
               /\ nextId' = nextId + 1
               /\ UNCHANGED <<members, deleted>>
               /\ Respond("addEarning", user,
                          [amount |-> amount, fund |-> f, project |-> p],
                          {}, env)

\* editExpense's revert of the old project impact.
RefundProject(ps, p, amount) ==
    [ps EXCEPT ![p] =
        [@ EXCEPT !.currentFundBalance = @ + amount,
                  !.totalExpenses = Max(0, @ - amount)]]

\* editExpense's new project impact (no inline update is written).
ChargeProject(ps, p, amount) ==
    [ps EXCEPT ![p] =
        [@ EXCEPT !.currentFundBalance = @ - amount,
                  !.totalExpenses = @ + amount]]

\* Step 1 left out: the new amount applied on top of the old impact.
ExpenseKept(t) == [projects |-> projects, funds |-> funds]

\* editExpense, step 1: the old impact taken back, whatever the status.
ExpenseReverted(t) ==
    [projects |-> IF t.projectId \in DOMAIN projects
                  THEN RefundProject(projects, t.projectId, t.amount)
                  ELSE projects,
     funds |-> IF t.fundId \in DOMAIN funds
               THEN CreditFund(funds, t.fundId, t.amount) ELSE funds]

\* The fund editExpense debits: a project's linked fund wins.
ExpenseFund(f, p) ==
    IF p \in DOMAIN projects /\ projects[p].linkedFundId # None
    THEN projects[p].linkedFundId ELSE f

\* The first check of editExpense that fails.
editExpenseError(id, amount, f, p, env) ==
    IF id \notin TxIds THEN "notFound"
    ELSE LET t == TxById(id)
             old == ExpenseReverted(t)
             fundId == ExpenseFund(f, p)
         IN IF t.type # "Expense" THEN "wrongType"
            ELSE IF p # None /\ p \notin DOMAIN projects THEN "notFound"
            ELSE IF fundId \notin DOMAIN funds THEN "notFound"
            ELSE IF GeneralOnProjectFund(old.funds[fundId], p)
            THEN "projectFund"
            ELSE IF ~Affordable(old.funds[fundId], amount) THEN "insufficient"
            ELSE IF ~TxAmountValid(amount) THEN "validation"
            ELSE IF env = "auditFail" THEN "audit"
            ELSE NoError

editExpense(id, amount, f, p, user, env) ==
    LET error == editExpenseError(id, amount, f, p, env)
    IN
    /\ Ready
    /\ IF error # NoError
       THEN Reject("editExpense", error)
       ELSE LET t == TxById(id)
                old == ExpenseReverted(t)
                fundId == ExpenseFund(f, p)
            IN /\ projects' = IF p # None
                              THEN ChargeProject(old.projects, p, amount)
                              ELSE old.projects
               /\ funds' = DebitFund(old.funds, fundId, amount)
               /\ txs' = (txs \ {t}) \cup
                     {[t EXCEPT !.amount = amount, !.fundId = fundId,
                                !.projectId = p, !.memberId = None]}
               /\ UNCHANGED <<members, nextId, deleted>>
               /\ Respond("editExpense", user,
                          [tx |-> id, amount |-> amount, fund |-> f,
                           project |-> p],
                          {}, env)

(* ------------------------------ deletion ------------------------------- *)

\* 1. Revert Fund Balance, by the transaction's type.
RevertFund(fs, t) ==
    IF t.fundId \in DOMAIN fs
    THEN IF t.type \in {"Deposit", "Earning", "Investment"}
         THEN DebitFund(fs, t.fundId, t.amount)
         ELSE IF t.type \in {"Withdrawal", "Expense", "Dividend"}
         THEN CreditFund(fs, t.fundId, t.amount)
         ELSE fs
    ELSE fs

\* Math.floor(amount / 1000): the shares a deposit is taken to have minted.
EstimatedShares(amount) == amount \div (ShareEstimate * Cent)

\* 2. Revert Member Contributions/Shares, for a member's Deposit only.
RevertMember(ms, t) ==
    IF t.memberId \in DOMAIN ms /\ t.type = "Deposit"
    THEN [ms EXCEPT ![t.memberId] =
            [@ EXCEPT !.totalContributed = @ - t.amount,
                      !.shares = Max(0, @ - EstimatedShares(t.amount))]]
    ELSE ms

\* 3. Revert Project Tracking, by the transaction's type.
RevertProject(ps, t) ==
    IF t.projectId \in DOMAIN ps
    THEN [ps EXCEPT ![t.projectId] =
            IF t.type = "Earning"
            THEN [@ EXCEPT !.currentFundBalance = @ - t.amount,
                           !.totalEarnings = @ - t.amount]
            ELSE IF t.type = "Expense"
            THEN [@ EXCEPT !.currentFundBalance = @ + t.amount,
                           !.totalExpenses = Max(0, @ - t.amount)]
            ELSE IF t.type = "Investment"
            THEN [@ EXCEPT !.currentFundBalance = @ - t.amount]
            ELSE IF t.type = "Withdrawal"
            THEN [@ EXCEPT !.currentFundBalance = @ + t.amount]
            ELSE @]
    ELSE ps

\* The reversal applied whatever the status of the record.
ReversalAlways(t) == t.status = t.status

\* Only reverse impact if it was actually applied (Success/Completed).
ReversalApplies(t) == IsCompleted(t.status)

\* The first check of deleteTransaction that fails.
deleteTransactionError(id) ==
    IF id \notin TxIds THEN "notFound"
    ELSE LET t == TxById(id)
         IN IF ReversalApplies(t) /\ t.type = "Deposit"
               /\ t.memberId \in DOMAIN members
               /\ ~MemberValid(RevertMember(members, t)[t.memberId])
            THEN "validation"
            ELSE NoError

\* deleteTransaction without a session: when member.save() fails validation
\* the fund reverted before it stays reverted.
deleteTransactionUnsessioned(id, user, env) ==
    LET error == deleteTransactionError(id)
    IN
    /\ Ready
    /\ IF error = "validation"
       THEN /\ funds' = RevertFund(funds, TxById(id))
            /\ last' = Response("deleteTransaction", FALSE, FALSE, error,
                                << >>)
            /\ UNCHANGED <<members, projects, txs, nextId, deleted, room,
                           undo, sessions, auditLog>>
       ELSE IF error # NoError
       THEN Reject("deleteTransaction", error)
       ELSE LET t == TxById(id)
            IN /\ funds' = IF ReversalApplies(t)
                           THEN RevertFund(funds, t) ELSE funds
               /\ members' = IF ReversalApplies(t)
                             THEN RevertMember(members, t) ELSE members
               /\ projects' = IF ReversalApplies(t)
                              THEN RevertProject(projects, t) ELSE projects
               /\ deleted' = deleted \cup {[originalId |-> id, data |-> t,
                                            deletedBy |-> user]}
               /\ txs' = txs \ {t}
               /\ UNCHANGED nextId
               /\ Respond("deleteTransaction", user,
                          [tx |-> id],
                          {id}, env)

deleteTransaction(id, user, env) ==
    LET error == deleteTransactionError(id)
    IN
    /\ Ready
    /\ IF error # NoError
       THEN Reject("deleteTransaction", error)
       ELSE LET t == TxById(id)
            IN /\ funds' = IF ReversalApplies(t)
                           THEN RevertFund(funds, t) ELSE funds
               /\ members' = IF ReversalApplies(t)
                             THEN RevertMember(members, t) ELSE members
               /\ projects' = IF ReversalApplies(t)
                              THEN RevertProject(projects, t) ELSE projects
               /\ deleted' = deleted \cup {[originalId |-> id, data |-> t,
                                            deletedBy |-> user]}
               /\ txs' = txs \ {t}
               /\ UNCHANGED nextId
               /\ Respond("deleteTransaction", user,
                          [tx |-> id],
                          {id}, env)

(* ------------------------------ transfers ------------------------------ *)

\* transferFundsError without the check of the source's balance.
transferFundsErrorUnchecked(s, t, amount) ==
    IF amount <= 0 THEN "invalid"
    ELSE IF s = t THEN "sameFund"
    ELSE IF s \notin DOMAIN funds \/ t \notin DOMAIN funds THEN "notFound"
    ELSE NoError

\* The first check of transferFunds that fails.
transferFundsError(s, t, amount) ==
    IF amount <= 0 THEN "invalid"
    ELSE IF s = t THEN "sameFund"
    ELSE IF s \notin DOMAIN funds \/ t \notin DOMAIN funds THEN "notFound"
    ELSE IF funds[s].balance < amount THEN "insufficient"
    ELSE NoError

\* The two records of one transfer: the Withdrawal on the source (id) and
\* the Investment on the target (id + 1).
\* Neither record gets a referenceNumber; the descriptions are
\* `[Transfer OUT] to ${targetFund.name}: ${description || ''}` and
\* `[Transfer IN] from ${sourceFund.name}: ${description || ''}`.
TransferRecords(id, s, t, amount, before, after, user) ==
    {Put(Tx(id, "Withdrawal", amount, "Success", s, None, None,
            <<before[s].balance, after[s].balance>>, user, 0),
         "description", <<"[Transfer OUT] to", t, "">>),
     Put(Tx(id + 1, "Investment", amount, "Success", t, None, None,
            <<before[t].balance, after[t].balance>>, user, 0),
         "description", <<"[Transfer IN] from", s, "">>)}

transferFunds(s, t, amount, user, env) ==
    LET error == transferFundsError(s, t, amount)
    IN
    /\ Ready
    /\ Room(2)
    /\ IF error # NoError
       THEN Reject("transferFunds", error)
       ELSE LET newFunds == CreditFund(DebitFund(funds, s, amount), t, amount)
            IN /\ funds' = newFunds
               /\ txs' = txs \cup TransferRecords(nextId, s, t, amount, funds,
                                                  newFunds, user)
               /\ nextId' = nextId + 2
               /\ UNCHANGED <<members, projects, deleted>>
               /\ Respond("transferFunds", user,
                          [source |-> s, target |-> t, amount |-> amount],
                          {}, env)

(* ------------------------------ dividends ------------------------------ *)

\* The order in which Member.find returns the members.
MemberOrder == <<"M1", "M2", "M3">>

\* Amounts offered to distributeDividends, in cents: 0.01, 100.00 and 400.50.
DividendAmounts == {1, 10000, 40050}

\* Member.find({ status: 'active', shares: { $gt: 0 } })
ActiveHolders(ms) ==
    {m \in DOMAIN ms : ms[m].status = "active" /\ ms[m].shares > 0}

\* members.reduce((sum, m) => sum + m.shares, 0)
TotalActiveShares(ms) ==
    SumOver(ActiveHolders(ms), [m \in DOMAIN ms |-> ms[m].shares])

\* The <<shares, amount, totalActiveShares>>, among the share counts 0, 10,
\* 20, 30 of up to three members, the share counts 0..3 with a total of at
\* most 3, and the DividendAmounts, for which
\* the IEEE-754 double product (shares * (amount / totalActiveShares)) * 100
\* falls just below the integer it equals in exact arithmetic:
\* 10 * (400.5 / 50) * 100 is 8009.999999999999 and
\* 20 * (400.5 / 50) * 100 is 16019.999999999998; and, for the amount 0.49
\* among the share counts 0, 10, 20, 30:
\* 30 * (0.49 / 30) * 100 is 48.99999999999999.
RoundsBelow == {<<10, 40050, 50>>, <<20, 40050, 50>>, <<30, 49, 30>>}

\* Math.floor((member.shares * ratePerShare) * 100) / 100, in cents, with
\* ratePerShare = amount / totalActiveShares, evaluated in doubles.
MemberReward(shares, amount, totalShares) ==
    IF <<shares, amount, totalShares>> \in RoundsBelow
    THEN ((shares * amount) \div totalShares) - 1
    ELSE (shares * amount) \div totalShares

\* The reward of each member; 0 for those who are not active holders.
Rewards(ms, amount) ==
    [m \in DOMAIN ms |->
        IF m \in ActiveHolders(ms)
        THEN MemberReward(ms[m].shares, amount, TotalActiveShares(ms))
        ELSE 0]

\* Members whose reward is positive: the others get no record.
Recipients(ms, amount) == {m \in DOMAIN ms : Rewards(ms, amount)[m] > 0}

\* totalDisbursed: the sum of the rewards paid.
TotalDisbursed(ms, amount) ==
    SumOver(Recipients(ms, amount), Rewards(ms, amount))

\* Position of member m among the recipients, in Member.find order.
RecipientRank(ms, amount, m) ==
    Cardinality({i \in 1..Len(MemberOrder) :
        /\ MemberOrder[i] \in Recipients(ms, amount)
        /\ \E j \in 1..Len(MemberOrder) : MemberOrder[j] = m /\ i < j})

\* The Dividend records of one batch, one per recipient.
DividendRecords(ms, amount, type, p, f, user) ==
    {Tx(nextId + RecipientRank(ms, amount, m), "Dividend",
        Rewards(ms, amount)[m], "Success",
        IF type = "Global" THEN f ELSE None, m,
        IF type = "Project" THEN p ELSE None,
        << >>, user, nextId) : m \in Recipients(ms, amount)}

\* 2. Adjust Source: the pool is debited by the amount actually disbursed.
DebitPool(balance, ms, amount) == balance - TotalDisbursed(ms, amount)

\* distributeDividendsError without the checks of the shares, of the rewards
\* and of the pool's balance.
distributeDividendsErrorLax(type, amount, p, f, env) ==
    IF amount <= 0 THEN "invalid"
    ELSE IF type = "Project" /\ p \notin DOMAIN projects THEN "notFound"
    ELSE IF type # "Project" /\ f \notin DOMAIN funds THEN "notFound"
    ELSE IF env = "auditFail" THEN "audit"
    ELSE NoError

\* The first check of distributeDividends that fails.
distributeDividendsError(type, amount, p, f, env) ==
    IF amount <= 0 THEN "invalid"
    ELSE IF TotalActiveShares(members) = 0 THEN "noShares"
    ELSE IF Recipients(members, amount) = {} THEN "tooSmall"
    ELSE IF type = "Project" /\ p \notin DOMAIN projects THEN "notFound"
    ELSE IF type = "Project"
            /\ projects[p].currentFundBalance < TotalDisbursed(members, amount)
    THEN "insufficient"
    ELSE IF type # "Project" /\ f \notin DOMAIN funds THEN "notFound"
    ELSE IF type # "Project"
            /\ funds[f].balance < TotalDisbursed(members, amount)
    THEN "insufficient"
    ELSE IF env = "auditFail" THEN "audit"
    ELSE NoError

distributeDividends(type, amount, p, f, user, env) ==
    LET error == distributeDividendsError(type, amount, p, f, env)
        n == Cardinality(Recipients(members, amount))
    IN
    /\ Ready
    /\ Room(n)
    /\ IF error # NoError
       THEN Reject("distributeDividends", error)
       ELSE /\ projects' = IF type = "Project"
                           THEN [projects EXCEPT ![p].currentFundBalance =
                                    DebitPool(@, members, amount)]
                           ELSE projects
            /\ funds' = IF type = "Project" THEN funds
                        ELSE [funds EXCEPT ![f].balance =
                                 DebitPool(@, members, amount)]
            /\ txs' = txs \cup
                  DividendRecords(members, amount, type, p, f, user)
            /\ nextId' = nextId + n
            /\ UNCHANGED <<members, deleted>>
            /\ Respond("distributeDividends", user,
                       [type |-> type, amount |-> amount, project |-> p,
                        fund |-> f],
                       {}, env)

(* --------------------------- equity transfer --------------------------- *)

RECURSIVE SumAmounts(_)
\* transfers.reduce((sum, t) => sum + Number(t.amount || 0), 0)
SumAmounts(xfers) ==
    IF xfers = << >> THEN 0 ELSE Head(xfers).amount + SumAmounts(Tail(xfers))

RECURSIVE SumShares(_)
\* transfers.reduce((sum, t) => sum + Number(t.shares || 0), 0)
SumShares(xfers) ==
    IF xfers = << >> THEN 0 ELSE Head(xfers).shares + SumShares(Tail(xfers))

\* One recipient of the loop: totalContributed and shares are credited.
CreditTarget(ms, x) ==
    [ms EXCEPT ![x.to] = [@ EXCEPT !.totalContributed = @ + x.amount,
                                   !.shares = @ + x.shares]]

RECURSIVE CreditTargets(_, _)
\* The recipient loop, in list order.
CreditTargets(ms, xfers) ==
    IF xfers = << >> THEN ms
    ELSE CreditTargets(CreditTarget(ms, Head(xfers)), Tail(xfers))

\* TargetsError looking at the first recipient only.
TargetsErrorFirst(ms, from, xfers) ==
    IF xfers = << >> THEN NoError
    ELSE LET x == Head(xfers)
         IN IF x.to = from THEN "selfTransfer"
            ELSE IF x.to \notin DOMAIN ms THEN "notFound"
            ELSE IF ms[x.to].status # "active" THEN "inactiveTarget"
            ELSE IF ~MemberValid(CreditTarget(ms, x)[x.to]) THEN "validation"
            ELSE NoError

RECURSIVE TargetsError(_, _, _)
\* The first check of the recipient loop that fails: self-transfer, target
\* missing, target not active, then targetMember.save()'s validators.
TargetsError(ms, from, xfers) ==
    IF xfers = << >> THEN NoError
    ELSE LET x == Head(xfers)
         IN IF x.to = from THEN "selfTransfer"
            ELSE IF x.to \notin DOMAIN ms THEN "notFound"
            ELSE IF ms[x.to].status # "active" THEN "inactiveTarget"
            ELSE IF ~MemberValid(CreditTarget(ms, x)[x.to]) THEN "validation"
            ELSE TargetsError(CreditTarget(ms, x), from, Tail(xfers))

\* DrainedStatus with "or" for "and": inactive when either holding is zero.
DrainedStatusEither(m) ==
    IF m.totalContributed = 0 \/ m.shares = 0 THEN "inactive" ELSE m.status

\* Auto-inactivate if fully drained.
DrainedStatus(m) ==
    IF m.totalContributed = 0 /\ m.shares = 0 THEN "inactive" ELSE m.status

\* Deduct from source, then the auto-inactivation.
DebitSource(ms, from, xfers) ==
    LET m1 == [ms[from] EXCEPT
                  !.totalContributed = @ - SumAmounts(xfers),
                  !.shares = @ - SumShares(xfers)]
    IN [ms EXCEPT ![from] = [m1 EXCEPT !.status = DrainedStatus(m1)]]

\* The first check of transferEquity that fails.
transferEquityError(from, xfers, env) ==
    IF from = None \/ xfers = << >> THEN "invalid"
    ELSE IF from \notin DOMAIN members THEN "notFound"
    ELSE IF SumAmounts(xfers) > members[from].totalContributed
    THEN "insufficient"
    ELSE IF SumShares(xfers) > members[from].shares THEN "insufficientShares"
    ELSE IF TargetsError(members, from, xfers) # NoError
    THEN TargetsError(members, from, xfers)
    ELSE IF \E i \in 1..Len(xfers) : ~TxAmountValid(xfers[i].amount)
    THEN "validation"
    ELSE IF ~MemberValid(
               DebitSource(CreditTargets(members, xfers), from, xfers)[from])
            \/ ~TxAmountValid(SumAmounts(xfers))
    THEN "validation"
    ELSE IF env = "auditFail" THEN "audit"
    ELSE NoError

\* The Equity-Transfer records: one per recipient, then one for the source.
EquityRecords(from, xfers, user) ==
    {Tx(nextId + i - 1, "Equity-Transfer", xfers[i].amount, "Success", None,
        xfers[i].to, None, << >>, user, nextId) : i \in 1..Len(xfers)}
    \cup {Tx(nextId + Len(xfers), "Equity-Transfer", SumAmounts(xfers),
             "Success", None, from, None, << >>, user, nextId)}

transferEquity(from, xfers, user, env) ==
    LET error == transferEquityError(from, xfers, env)
    IN
    /\ Ready
    /\ Room(Len(xfers) + 1)
    /\ IF error # NoError
       THEN RejectRequest("transferEquity", error,
                          [from |-> from, transfers |-> xfers])
       ELSE /\ members' = DebitSource(CreditTargets(members, xfers), from,
                                      xfers)
            /\ txs' = txs \cup EquityRecords(from, xfers, user)
            /\ nextId' = nextId + Len(xfers) + 1
            /\ UNCHANGED <<funds, projects, deleted>>
            /\ Respond("transferEquity", user,
                       [from |-> from, transfers |-> xfers],
                       {}, env)

(* ---------------------------- bulk deposits ---------------------------- *)

RECURSIVE SumDeposits(_)
\* totalBatchAmount after the loop.
SumDeposits(deps) ==
    IF deps = << >> THEN 0 ELSE Head(deps).amount + SumDeposits(Tail(deps))

RECURSIVE CreditMembers(_, _)
\* member.totalContributed += depositAmount, entry by entry.
CreditMembers(ms, deps) ==
    IF deps = << >> THEN ms
    ELSE CreditMembers(CreditMember(ms, Head(deps).member, Head(deps).amount),
                       Tail(deps))

RECURSIVE EntriesError(_, _, _)
\* The first check of the entry loop that fails; seen holds the members of
\* the entries before (every entry takes the request's commonMonth).
EntriesError(ms, seen, deps) ==
    IF deps = << >> THEN NoError
    ELSE LET d == Head(deps)
         IN IF d.member \in seen THEN "duplicate"
            ELSE IF d.member \notin DOMAIN ms THEN "notFound"
            ELSE IF d.amount <= 0 THEN "invalid"
            ELSE IF ~MemberValid(CreditMember(ms, d.member, d.amount)[d.member])
            THEN "validation"
            ELSE EntriesError(CreditMember(ms, d.member, d.amount),
                              seen \cup {d.member}, Tail(deps))

\* The first check of bulkAddDeposits that fails.
bulkAddDepositsError(f, deps, env) ==
    IF f = None \/ deps = << >> THEN "invalid"
    ELSE IF f \notin DOMAIN funds THEN "notFound"
    ELSE IF EntriesError(members, {}, deps) # NoError
    THEN EntriesError(members, {}, deps)
    ELSE IF env = "auditFail" THEN "audit"
    ELSE NoError

\* The records of the batch with every snapshot taken from the balance
\* before the batch.
BulkRecordsFlat(f, balance, deps, user) ==
    {Tx(nextId + i - 1, "Deposit", deps[i].amount, "Completed", f,
        deps[i].member, None, <<balance, balance + deps[i].amount>>,
        user, nextId) : i \in 1..Len(deps)}

\* The Deposit records of the batch: the snapshots run on from the fund's
\* balance before the batch.
BulkRecords(f, balance, deps, user) ==
    {Tx(nextId + i - 1, "Deposit", deps[i].amount, "Completed", f,
        deps[i].member, None,
        <<balance + SumDeposits(SubSeq(deps, 1, i - 1)),
          balance + SumDeposits(SubSeq(deps, 1, i))>>,
        user, nextId) : i \in 1..Len(deps)}

bulkAddDeposits(f, deps, user, env) ==
    LET error == bulkAddDepositsError(f, deps, env)
    IN
    /\ Ready
    /\ Room(Len(deps))
    /\ IF error # NoError
       THEN Reject("bulkAddDeposits", error)
       ELSE /\ members' = CreditMembers(members, deps)
            /\ txs' = txs \cup BulkRecords(f, funds[f].balance, deps, user)
            /\ funds' = CreditFund(funds, f, SumDeposits(deps))
            /\ nextId' = nextId + Len(deps)
            /\ UNCHANGED <<projects, deleted>>
            /\ Respond("bulkAddDeposits", user,
                       [fund |-> f, deposits |-> deps],
                       {}, env)

(* --------------------------- reconciliation ---------------------------- *)

\* $match: the Success/Completed transactions of the fund.
FundTxs(f) == {t \in txs : t.fundId = f /\ IsCompleted(t.status)}

\* totalIn: Deposit, Earning and Investment amounts.
TotalIn(f) ==
    SumOver({t \in FundTxs(f) : t.type \in {"Deposit", "Earning", "Investment"}},
            [t \in txs |-> t.amount])

\* totalOut: Expense, Withdrawal, Dividend and Adjustment amounts.
TotalOut(f) ==
    SumOver({t \in FundTxs(f) :
                t.type \in {"Expense", "Withdrawal", "Dividend", "Adjustment"}},
            [t \in txs |-> t.amount])

CalculatedBalance(f) == TotalIn(f) - TotalOut(f)

\* The comparison dropped: every fund counts as matched.
IsMatchedAlways(f) == f = f

\* Math.abs(calculatedBalance - fund.balance) < 0.01, in cents.
IsMatched(f) ==
    LET d == CalculatedBalance(f) - funds[f].balance
    IN (IF d < 0 THEN -d ELSE d) < 1

\* reconcileFund made corrective: a balance that does not match is set to
\* the calculated one.
reconcileFundCorrecting(f, user) ==
    /\ Ready
    /\ IF f \notin DOMAIN funds
       THEN Reject("reconcileFund", "notFound")
       ELSE /\ funds' = [funds EXCEPT
                            ![f].reconciliationStatus = "VERIFIED",
                            ![f].balance = CalculatedBalance(f)]
            /\ last' = Response("reconcileFund", TRUE, TRUE, NoError,
                                [fund |-> f])
            /\ UNCHANGED <<members, projects, txs, nextId, deleted, room,
                           undo, sessions, auditLog>>

reconcileFund(f, user) ==
    /\ Ready
    /\ IF f \notin DOMAIN funds
       THEN Reject("reconcileFund", "notFound")
       ELSE /\ funds' = [funds EXCEPT ![f].reconciliationStatus =
                            IF IsMatched(f) THEN "VERIFIED" ELSE "DISCREPANCY"]
            /\ last' = Response("reconcileFund", TRUE, TRUE, NoError, [fund |-> f])
            /\ UNCHANGED <<members, projects, txs, nextId, deleted, room,
                           undo, sessions, auditLog>>

(* ------------------------------ projects ------------------------------- *)

\* The auto-created fund of a project.
FundOf(p) == IF p = "P1" THEN "PF" ELSE None

\* Fund.findOne({ type: Primary/DEPOSIT, status: ACTIVE, balance >= needed })
SourceFunds(fs, needed) ==
    {f \in DOMAIN fs : fs[f].type \in {"Primary", "DEPOSIT"}
                       /\ fs[f].balance >= needed}

\* The Project document createProject stores.
NewProject(p, initialInvestment) ==
    [currentFundBalance |-> initialInvestment,
     totalEarnings |-> 0, totalExpenses |-> 0,
     linkedFundId |-> FundOf(p),
     initialInvestment |-> initialInvestment,
     updates |-> << >>]

\* The project fund: created empty, credited with the initial investment.
NewProjectFund(initialInvestment) ==
    [balance |-> IF initialInvestment > 0 THEN initialInvestment ELSE 0,
     type |-> "PROJECT", reconciliationStatus |-> "PENDING"]

\* The two records of a funded project: the Investment on the project fund
\* and the Withdrawal on the source fund, both naming the project.
FundingRecords(id, p, src, initialInvestment, user) ==
    {Tx(id, "Investment", initialInvestment, "Success", FundOf(p), None, p,
        << >>, user, 0),
     Tx(id + 1, "Withdrawal", initialInvestment, "Success", src, None, p,
        << >>, user, 0)}

createProject(p, initialInvestment, user, env) ==
    /\ Ready
    /\ p \notin DOMAIN projects
    /\ Room(2)
    /\ IF initialInvestment > 0
       THEN IF SourceFunds(funds, initialInvestment) = {}
            THEN Reject("createProject", "insufficient")
            ELSE \E src \in SourceFunds(funds, initialInvestment) :
                 /\ funds' = Put(DebitFund(funds, src, initialInvestment),
                                 FundOf(p), NewProjectFund(initialInvestment))
                 /\ projects' = Put(projects, p,
                                    NewProject(p, initialInvestment))
                 /\ txs' = txs \cup FundingRecords(nextId, p, src,
                                                   initialInvestment, user)
                 /\ nextId' = nextId + 2
                 /\ UNCHANGED <<members, deleted>>
                 /\ Respond("createProject", user,
                            [project |-> p,
                             initialInvestment |-> initialInvestment],
                            {}, env)
       ELSE /\ funds' = Put(funds, FundOf(p), NewProjectFund(0))
            /\ projects' = Put(projects, p, NewProject(p, initialInvestment))
            /\ UNCHANGED <<members, txs, nextId, deleted>>
            /\ Respond("createProject", user,
                       [project |-> p,
                        initialInvestment |-> initialInvestment],
                       {}, env)

\* Fund.findOne({ type: Primary/DEPOSIT, status: ACTIVE }): the funds the
\* remaining balance of a terminated project may be returned to.
EnterpriseFunds(fs) == {f \in DOMAIN fs : fs[f].type \in {"Primary", "DEPOSIT"}}

\* projectFund ? projectFund.balance : (project.initialInvestment || 0)
AmountToRevert(fs, proj) ==
    IF proj.linkedFundId \in DOMAIN fs THEN fs[proj.linkedFundId].balance
    ELSE proj.initialInvestment

\* The record of the liquidation: an Investment on the enterprise fund, which
\* does not name the project.
LiquidationRecord(id, f, amount, user) ==
    Tx(id, "Investment", amount, "Success", f, None, None, << >>, user, 0)

\* Transaction.deleteMany({ projectId }): the records that name the project.
ProjectTxs(p) == {t \in txs : t.projectId = p}

\* The first check of deleteProject that fails.
deleteProjectError(p) ==
    IF p \notin DOMAIN projects THEN "notFound"
    ELSE IF Len(projects[p].updates) > 0 THEN "terminationForbidden"
    ELSE NoError

\* Steps 2 and 4 of deleteProject: the project's records and the project are
\* removed; no DeletedRecord is written.
deleteProjectPurge(p, user) ==
    /\ UNCHANGED deleted
    /\ projects' = [q \in DOMAIN projects \ {p} |-> projects[q]]

deleteProject(p, user, env) ==
    LET error == deleteProjectError(p)
    IN
    /\ Ready
    /\ Room(1)
    /\ IF error # NoError
       THEN Reject("deleteProject", error)
       ELSE LET proj == projects[p]
                amount == AmountToRevert(funds, proj)
                reverts == amount > 0 /\ EnterpriseFunds(funds) # {}
                remaining == [f \in DOMAIN funds \ {proj.linkedFundId} |->
                                funds[f]]
            IN /\ \E e \in IF reverts THEN EnterpriseFunds(funds) ELSE {None} :
                    /\ funds' = IF reverts
                                THEN CreditFund(remaining, e, amount)
                                ELSE remaining
                    /\ txs' = (txs \ ProjectTxs(p)) \cup
                              IF reverts
                              THEN {LiquidationRecord(nextId, e, amount, user)}
                              ELSE {}
               /\ nextId' = IF reverts THEN nextId + 1 ELSE nextId
               /\ deleteProjectPurge(p, user)
               /\ UNCHANGED members
               /\ Respond("deleteProject", user, [project |-> p],
                          {t.id : t \in ProjectTxs(p)}, env)

\* The project totals after an inline update of the given type is applied.
ApplyUpdate(proj, type, amount) ==
    IF type = "Earning"
    THEN [proj EXCEPT !.currentFundBalance = @ + amount,
                      !.totalEarnings = @ + amount]
    ELSE IF type = "Expense"
    THEN [proj EXCEPT !.currentFundBalance = @ - amount,
                      !.totalExpenses = @ + amount]
    ELSE proj

\* The project totals after an inline update of the given type is reverted.
RevertUpdate(proj, type, amount) ==
    IF type = "Earning"
    THEN [proj EXCEPT !.currentFundBalance = @ - amount,
                      !.totalEarnings = @ - amount]
    ELSE IF type = "Expense"
    THEN [proj EXCEPT !.currentFundBalance = @ + amount,
                      !.totalExpenses = @ - amount]
    ELSE proj

\* The linked fund follows an inline update: + for Earning, - for Expense.
FundAfterUpdate(fs, f, type, amount) ==
    IF f \in DOMAIN fs
    THEN IF type = "Earning" THEN CreditFund(fs, f, amount)
         ELSE IF type = "Expense" THEN DebitFund(fs, f, amount)
         ELSE fs
    ELSE fs

\* The first check of addProjectUpdate that fails.
addProjectUpdateError(p, amount, env) ==
    IF p \notin DOMAIN projects THEN "notFound"
    ELSE IF ~TxAmountValid(amount) THEN "validation"
    ELSE IF env = "auditFail" THEN "audit"
    ELSE NoError

addProjectUpdate(p, type, amount, user, env) ==
    LET error == addProjectUpdateError(p, amount, env)
    IN
    /\ Ready
    /\ Room(1)
    /\ IF error # NoError
       THEN Reject("addProjectUpdate", error)
       ELSE LET proj == ApplyUpdate(projects[p], type, amount)
                link == projects[p].linkedFundId
            IN /\ projects' = [projects EXCEPT ![p] =
                    [proj EXCEPT !.updates =
                        Append(@, Update(type, amount, << >>))]]
               /\ funds' = FundAfterUpdate(funds, link, type, amount)
               /\ txs' = txs \cup {Tx(nextId, type, amount, "Success", link,
                                      None, p, << >>, user, 0)}
               /\ nextId' = nextId + 1
               /\ UNCHANGED <<members, deleted>>
               /\ Respond("addProjectUpdate", user,
                          [project |-> p, type |-> type, amount |-> amount],
                          {}, env)

\* The first check of editProjectUpdate that fails.
editProjectUpdateError(p, i, env) ==
    IF p \notin DOMAIN projects THEN "notFound"
    ELSE IF i \notin 1..Len(projects[p].updates) THEN "notFound"
    ELSE IF env = "auditFail" THEN "audit"
    ELSE NoError

editProjectUpdate(p, i, type, amount, user, env) ==
    LET error == editProjectUpdateError(p, i, env)
    IN
    /\ Ready
    /\ Room(1)
    /\ IF error # NoError
       THEN Reject("editProjectUpdate", error)
       ELSE LET old == projects[p].updates[i]
                link == projects[p].linkedFundId
                proj == ApplyUpdate(
                            RevertUpdate(projects[p], old.type, old.amount),
                            type, amount)
            IN /\ projects' = [projects EXCEPT ![p] =
                    [proj EXCEPT !.updates[i] =
                        [@ EXCEPT !.type = type, !.amount = amount]]]
               /\ funds' = FundAfterUpdate(
                              FundAfterUpdate(funds, link, old.type,
                                              -old.amount),
                              link, type, amount)
               /\ txs' = txs \cup {Tx(nextId, "Adjustment", 0, "Success",
                                      link, None, p, << >>, user, 0)}
               /\ nextId' = nextId + 1
               /\ UNCHANGED <<members, deleted>>
               /\ Respond("editProjectUpdate", user,
                          [project |-> p, index |-> i, type |-> type,
                           amount |-> amount],
                          {}, env)

\* The first check of deleteProjectUpdate that fails.
deleteProjectUpdateError(p, i, env) ==
    IF p \notin DOMAIN projects THEN "notFound"
    ELSE IF i \notin 1..Len(projects[p].updates) THEN "notFound"
    ELSE IF ~TxAmountValid(projects[p].updates[i].amount) THEN "validation"
    ELSE IF env = "auditFail" THEN "audit"
    ELSE NoError

deleteProjectUpdate(p, i, user, env) ==
    LET error == deleteProjectUpdateError(p, i, env)
    IN
    /\ Ready
    /\ Room(1)
    /\ IF error # NoError
       THEN Reject("deleteProjectUpdate", error)
       ELSE LET old == projects[p].updates[i]
                link == projects[p].linkedFundId
                proj == RevertUpdate(projects[p], old.type, old.amount)
            IN /\ projects' = [projects EXCEPT ![p] =
                    [proj EXCEPT !.updates = Without(@, i)]]
               /\ funds' = FundAfterUpdate(funds, link, old.type, -old.amount)
               /\ txs' = txs \cup
                    {Tx(nextId, "Adjustment", old.amount, "Success", link,
                        None, p, << >>, user, 0)}
               /\ nextId' = nextId + 1
               /\ UNCHANGED <<members, deleted>>
               /\ Respond("deleteProjectUpdate", user,
                          [project |-> p, index |-> i],
                          {}, env)

(* --------------------------- initial states ---------------------------- *)

\* A member as createMember stores it: totalContributed = shares * 1000.
NewMember(shares, status) ==
    [shares |-> shares, totalContributed |-> shares * SharePrice * Cent,
     status |-> status]

\* The Deposit record createFund writes for an opening balance.
OpeningRecord(id, f, amount) ==
    Tx(id, "Deposit", amount, "Success", f, None, None, << >>, Admin, 0)

\* Fund F1 opened with OpeningBalance, fund F2 opened empty.
OpenedFunds ==
    [f \in {"F1", "F2"} |->
        [balance |-> IF f = "F1" THEN OpeningBalance ELSE 0,
         type |-> IF f = "F1" THEN "DEPOSIT" ELSE "OTHER",
         reconciliationStatus |-> "PENDING"]]

(* -------------------------------- funds -------------------------------- *)

\* The type field of an updateFund request (None: left out).
FundTypeArgs == {None, "PROJECT", "OTHER"}

\* updateFund: fund.type = req.body.type || fund.type; fund.save().  The
\* handler opens no session and touches no balance.
updateFund(f, type) ==
    /\ Ready
    /\ IF f \notin DOMAIN funds
       THEN Reject("updateFund", "notFound")
       ELSE /\ funds' = [funds EXCEPT ![f].type =
                            IF type = None THEN @ ELSE type]
            /\ UNCHANGED <<members, projects, txs, nextId, deleted>>
            /\ Respond("updateFund", None, [fund |-> f, type |-> type], {}, "ok")

\* Transaction.countDocuments({ fundId }) > 0
FundLinked(f) == \E t \in txs : t.fundId = f

\* The first check of deleteFund that fails.
deleteFundError(f) ==
    IF f \notin DOMAIN funds THEN "notFound"
    ELSE IF funds[f].balance > 0 THEN "nonZeroBalance"
    ELSE IF FundLinked(f) THEN "linked"
    ELSE NoError

\* deleteFund: fund.deleteOne() once the checks pass.  The handler opens no
\* session.
deleteFund(f) ==
    LET error == deleteFundError(f)
    IN
    /\ Ready
    /\ IF error # NoError
       THEN Reject("deleteFund", error)
       ELSE /\ funds' = [g \in DOMAIN funds \ {f} |-> funds[g]]
            /\ UNCHANGED <<members, projects, txs, nextId, deleted>>
            /\ Respond("deleteFund", None, [fund |-> f], {}, "ok")

(* ------------------------- concurrent requests ------------------------- *)

\* Requests served at the same time, each in its own session
\* (mongoose.startSession(); session.startTransaction()).
SessionIds == {1, 2}

\* A session that is not open.
Closed ==
    [pc |-> "closed", req |-> << >>, snap |-> << >>, todo |-> << >>,
     held |-> {}, stale |-> {}]

NoSessions == [s \in SessionIds |-> Closed]

\* The requests that race on fund F1: expenses from it, transfers between it
\* and F2, and completed deposits of member M1 into it.
RaceRequests ==
    {[op |-> "addExpense", amount |-> a, fund |-> "F1", other |-> None] :
        a \in Amounts}
    \cup {[op |-> "transferFunds", amount |-> a, fund |-> f,
           other |-> IF f = "F1" THEN "F2" ELSE "F1"] :
            a \in Amounts, f \in {"F1", "F2"}}
    \cup {[op |-> "addDeposit", amount |-> a, fund |-> "F1", other |-> "M1"] :
            a \in Amounts}

\* approveDeposit requests for the live transactions, each with what
\* Transaction.findById(req.params.id).session(session) returns at the start
\* of the handler: the record's status, amount, fundId and memberId.
ApprovalRequests ==
    {[op |-> "approveDeposit", tx |-> t.id, status |-> t.status,
      amount |-> t.amount, fund |-> t.fundId, other |-> t.memberId] :
        t \in txs}

\* Transaction documents the request creates.
RecordsOf(req) ==
    IF req.op = "transferFunds" THEN 2
    ELSE IF req.op = "approveDeposit" THEN 0
    ELSE 1

\* Transaction documents the open sessions may still create.
Pending ==
    LET open == {s \in SessionIds : sessions[s].pc # "closed"}
    IN SumOver(open, [s \in open |-> RecordsOf(sessions[s].req)])

\* The first check of the handler that fails on the documents fs, ms the
\* session read (findById(...).session(session)).
SessionError(req, fs, ms) ==
    IF req.op = "addExpense"
    THEN IF req.fund \notin DOMAIN fs THEN "notFound"
         ELSE IF GeneralOnProjectFund(fs[req.fund], None) THEN "projectFund"
         ELSE IF ~Affordable(fs[req.fund], req.amount) THEN "insufficient"
         ELSE NoError
    ELSE IF req.op = "transferFunds"
    THEN IF req.amount <= 0 THEN "invalid"
         ELSE IF req.fund = req.other THEN "sameFund"
         ELSE IF req.fund \notin DOMAIN fs \/ req.other \notin DOMAIN fs
         THEN "notFound"
         ELSE IF fs[req.fund].balance < req.amount THEN "insufficient"
         ELSE NoError
    ELSE IF req.op = "approveDeposit"
    THEN IF IsCompleted(req.status) THEN "alreadyApproved"
         ELSE IF req.fund \notin DOMAIN fs \/ req.other \notin DOMAIN ms
         THEN "notFound"
         ELSE NoError
    ELSE IF req.amount <= 0 THEN "invalid"
    ELSE IF req.fund \notin DOMAIN fs \/ req.other \notin DOMAIN ms
    THEN "notFound"
    ELSE NoError

\* The documents the handler saves, in the order of its save() calls.
SessionWrites(req) ==
    IF req.op = "addExpense" THEN <<req.fund>>
    ELSE IF req.op = "approveDeposit"
    THEN <<req.fund, req.other, ToString(req.tx)>>
    ELSE <<req.fund, req.other>>

\* The Fund documents as the handler leaves them, from the ones it read.
SessionFunds(req, fs) ==
    IF req.op = "addExpense" THEN DebitFund(fs, req.fund, req.amount)
    ELSE IF req.op = "transferFunds"
    THEN CreditFund(DebitFund(fs, req.fund, req.amount), req.other,
                    req.amount)
    ELSE CreditFund(fs, req.fund, req.amount)

\* The Member documents as the handler leaves them, from the ones it read.
SessionMembers(req, ms) ==
    IF req.op \in {"addDeposit", "approveDeposit"}
    THEN CreditMember(ms, req.other, req.amount)
    ELSE ms

\* The Transaction documents after the handler's transaction.save(): the
\* approved record with status Completed, every other record as it is.
SessionApproved(req, ts, user) ==
    IF req.op = "approveDeposit"
    THEN {IF t.id = req.tx THEN ApprovedTx(t, user) ELSE t : t \in ts}
    ELSE ts

\* The Transaction documents the handler creates, from the documents it read.
SessionRecords(req, fs, id, user) ==
    IF req.op = "addExpense"
    THEN {Tx(id, "Expense", req.amount, "Success", req.fund, None, None,
             <<fs[req.fund].balance, fs[req.fund].balance - req.amount>>,
             user, 0)}
    ELSE IF req.op = "transferFunds"
    THEN TransferRecords(id, req.fund, req.other, req.amount, fs,
                         SessionFunds(req, fs), user)
    ELSE IF req.op = "approveDeposit" THEN {}
    ELSE {Tx(id, "Deposit", req.amount, "Completed", req.fund, req.other,
             None,
             <<fs[req.fund].balance, fs[req.fund].balance + req.amount>>,
             user, 0)}

\* WriteConflict with the test dropped: every save() goes through.
WriteConflictNever(s, d) == FALSE

\* save({ session }) inside a transaction: the write fails with WriteConflict
\* when the document was committed by another session after this session's
\* snapshot, or is written by another session that is still open.
WriteConflict(s, d) ==
    \/ d \in sessions[s].stale
    \/ \E t \in SessionIds \ {s} : d \in sessions[t].held

\* startTransaction and the handler's reads, which fix the snapshot of the
\* session, followed by the handler's checks on what it read.
beginSession(s, req) ==
    LET error == SessionError(req, funds, members)
    IN
    /\ sessions[s].pc = "closed"
    /\ Room(Pending + RecordsOf(req))
    /\ IF error # NoError
       THEN /\ last' = Response(req.op, FALSE, FALSE, error, << >>)
            /\ UNCHANGED sessions
       ELSE /\ sessions' =
                 [sessions EXCEPT ![s] =
                     [pc |-> "writing", req |-> req,
                      snap |-> [funds |-> funds, members |-> members],
                      todo |-> SessionWrites(req), held |-> {},
                      stale |-> {}]]
            /\ UNCHANGED last
    /\ UNCHANGED <<funds, members, projects, txs, nextId, deleted, room,
                   undo, auditLog>>

\* The next save({ session }) of the handler: on a write conflict the catch
\* block aborts the transaction and answers with the error.
saveSession(s) ==
    LET me == sessions[s]
    IN
    /\ me.pc = "writing"
    /\ me.todo # << >>
    /\ IF WriteConflict(s, Head(me.todo))
       THEN /\ sessions' = [sessions EXCEPT ![s] = Closed]
            /\ last' = Response(me.req.op, FALSE, FALSE, "writeConflict",
                                << >>)
       ELSE /\ sessions' = [sessions EXCEPT ![s].todo = Tail(@),
                                            ![s].held = @ \cup {Head(me.todo)}]
            /\ UNCHANGED last
    /\ UNCHANGED <<funds, members, projects, txs, nextId, deleted, room,
                   undo, auditLog>>

\* Transaction.create, session.commitTransaction(), recalculateAllStats()
\* and the response: the session's writes become the committed documents.
commitSession(s, user, env) ==
    LET me == sessions[s]
        args == [session |-> s, req |-> me.req]
    IN
    /\ me.pc = "writing"
    /\ me.todo = << >>
    /\ funds' = [f \in DOMAIN funds |->
                    IF f \in me.held
                    THEN SessionFunds(me.req, me.snap.funds)[f]
                    ELSE funds[f]]
    /\ members' = [m \in DOMAIN members |->
                    IF m \in me.held
                    THEN SessionMembers(me.req, me.snap.members)[m]
                    ELSE members[m]]
    /\ txs' = SessionApproved(me.req, txs, user)
                 \cup SessionRecords(me.req, me.snap.funds, nextId, user)
    /\ nextId' = nextId + RecordsOf(me.req)
    /\ room' = room - RecordsOf(me.req)
    /\ sessions' =
         [t \in SessionIds |->
            IF t = s THEN Closed
            ELSE IF sessions[t].pc = "writing"
            THEN [sessions[t] EXCEPT !.stale = @ \cup me.held]
            ELSE sessions[t]]
    /\ last' = IF env = "statsFail"
               THEN Response(me.req.op, TRUE, FALSE, "stats", args)
               ELSE Response(me.req.op, TRUE, TRUE, NoError, args)
    /\ auditLog' = AuditEntries(me.req.op, user, env)
    /\ UNCHANGED <<projects, deleted, undo>>

\* reconcileFund step by step.  The handler opens no session: its first
\* read, Fund.findById(req.params.id), returns the fund as committed then.
readFund(s, f) ==
    /\ sessions[s].pc = "closed"
    /\ f \in DOMAIN funds
    /\ sessions' = [sessions EXCEPT ![s] =
                      [pc |-> "aggregating",
                       req |-> [op |-> "reconcileFund", fund |-> f],
                       snap |-> [funds |-> funds, members |-> members],
                       todo |-> << >>, held |-> {}, stale |-> {}]]
    /\ UNCHANGED <<funds, members, projects, txs, nextId, deleted, last, room,
                   undo, auditLog>>

\* Its second read, Transaction.aggregate, sees the transactions committed
\* by then; the result is compared with the balance read before, and
\* fund.save() writes the stamp (the paths the handler modified) only.
aggregateFund(s) ==
    LET f == sessions[s].req.fund
        d == CalculatedBalance(f) - sessions[s].snap.funds[f].balance
        isMatched == (IF d < 0 THEN -d ELSE d) < 1
    IN
    /\ sessions[s].pc = "aggregating"
    /\ funds' = [funds EXCEPT ![f].reconciliationStatus =
                    IF isMatched THEN "VERIFIED" ELSE "DISCREPANCY"]
    /\ sessions' = [sessions EXCEPT ![s] = Closed]
    /\ last' = Response("reconcileFund", TRUE, TRUE, NoError, [fund |-> f])
    /\ auditLog' = {}
    /\ UNCHANGED <<members, projects, txs, nextId, deleted, room, undo>>

(* --------------------------- member totals ----------------------------- *)

\* Transaction.aggregate: $match { type: Deposit, status: Success/Completed },
\* $group by memberId with $sum of amount; a member without such a record
\* has no group.
DepositStat(m) ==
    LET ids == {t.id : t \in {u \in txs : /\ u.type = "Deposit"
                                          /\ IsCompleted(u.status)
                                          /\ u.memberId = m}}
    IN SumOver(ids, [i \in ids |-> TxById(i).amount])

\* Member.bulkWrite sets totalContributed to the member's group total;
\* Member.updateMany resets it to 0 for every member without a group.
RecalculatedMembers ==
    [m \in DOMAIN members |->
        [members[m] EXCEPT !.totalContributed = DepositStat(m)]]

\* POST /api/members/recalculate-financials: no session and no check; the
\* totals are written before recalculateAllStats() runs.
recalculateMemberFinancials(user, env) ==
    /\ Ready
    /\ members' = RecalculatedMembers
    /\ UNCHANGED <<funds, projects, txs, nextId, deleted>>
    /\ Respond("recalculateMemberFinancials", user, << >>, {}, env)

\* The state after the two funds were created and the members M1 (1 share)
\* and M2 (2 shares) were registered; member M3 and project P1 do not exist.
InitLedger ==
    /\ funds = OpenedFunds
    /\ members = [m \in {"M1", "M2"} |->
                    NewMember(IF m = "M1" THEN 1 ELSE 2, "active")]
    /\ projects = [p \in {} |-> 0]
    /\ txs = {OpeningRecord(1, "F1", OpeningBalance)}
    /\ nextId = 2
    /\ deleted = {}
    /\ last = Idle
    /\ sessions = NoSessions /\ auditLog = {}

InitDeposit == InitLedger /\ room = MaxTxDeposit /\ undo = NoUndo(FALSE)
InitProject == InitLedger /\ room = MaxTxProject /\ undo = NoUndo(FALSE)
InitMoney == InitLedger /\ room = MaxTxMoney /\ undo = NoUndo(FALSE)
InitApproval == InitLedger /\ room = MaxTxApproval /\ undo = NoUndo(FALSE)
InitReconcile == InitLedger /\ room = MaxTxReconcile /\ undo = NoUndo(FALSE)
Init == InitLedger /\ room = MaxTx /\ undo = NoUndo(FALSE)

\* Share counts the members of the dividend runs were registered with.
DividendShares == {0, 10, 20, 30}
\* Initial investments project P1 was created with, where it starts created.
DividendPools == {0, 10000}
\* Initial investment of the project of the expense runs, in cents.
ScopeInvestment == 100 * Cent

\* The state after F1 and F2 were opened, three members were registered
\* (M3 possibly inactive) and project P1 was created with an initial
\* investment drawn from F1.
InitDividend ==
    \E s1 \in DividendShares, s2 \in DividendShares, s3 \in DividendShares,
       st3 \in {"active", "inactive"}, inv \in DividendPools :
       /\ members = [m \in MemberIds |->
                        IF m = "M1" THEN NewMember(s1, "active")
                        ELSE IF m = "M2" THEN NewMember(s2, "active")
                        ELSE NewMember(s3, st3)]
       /\ funds = Put(DebitFund(OpenedFunds, "F1", inv), "PF",
                      NewProjectFund(inv))
       /\ projects = [p \in {"P1"} |-> NewProject(p, inv)]
       /\ txs = {OpeningRecord(1, "F1", OpeningBalance)} \cup
                (IF inv > 0 THEN FundingRecords(2, "P1", "F1", inv, Admin)
                 ELSE {})
       /\ nextId = IF inv > 0 THEN 4 ELSE 2
       /\ deleted = {}
       /\ last = Idle
       /\ sessions = NoSessions /\ auditLog = {}
       /\ room = MaxTxDividend
       /\ undo = NoUndo(FALSE)

\* The state after F1 and F2 were opened, M1 and M2 were registered and
\* project P1 was created with an initial investment drawn from F1; the
\* history of "apply, then delete" is kept.
InitUndo ==
    \E inv \in DividendPools :
       /\ members = [m \in {"M1", "M2"} |->
                        NewMember(IF m = "M1" THEN 1 ELSE 2, "active")]
       /\ funds = Put(DebitFund(OpenedFunds, "F1", inv), "PF",
                      NewProjectFund(inv))
       /\ projects = [p \in {"P1"} |-> NewProject(p, inv)]
       /\ txs = {OpeningRecord(1, "F1", OpeningBalance)} \cup
                (IF inv > 0 THEN FundingRecords(2, "P1", "F1", inv, Admin)
                 ELSE {})
       /\ nextId = IF inv > 0 THEN 4 ELSE 2
       /\ deleted = {}
       /\ last = Idle
       /\ sessions = NoSessions /\ auditLog = {}
       /\ room = MaxTxUndo
       /\ undo = NoUndo(TRUE)

\* Holdings the members of the equity runs start with: contributions move
\* apart from shares * 1000 through deposits and earlier transfers.
EquityHoldings ==
    [shares : {0, 1, 2}, totalContributed : {0, 100000, 200000},
     status : {"active", "inactive"}]

\* The state after the funds were opened and M1 and M2 reached holdings
\* drawn from EquityHoldings; M3 does not exist.
InitEquity ==
    /\ funds = OpenedFunds
    /\ members \in [{"M1", "M2"} -> EquityHoldings]
    /\ projects = [p \in {} |-> 0]
    /\ txs = {OpeningRecord(1, "F1", OpeningBalance)}
    /\ nextId = 2
    /\ deleted = {}
    /\ last = Idle
    /\ sessions = NoSessions /\ auditLog = {}
    /\ room = MaxTxEquity
    /\ undo = NoUndo(FALSE)

(* ------------------------------ requests ------------------------------- *)

\* Amounts a request may carry: the valid ones and zero.
AmountArgs == Amounts \cup {0}
\* The status field of an addDeposit request (None: left out).
StatusArgs == {None, "Pending", "Completed"}
ProjectArgs == ProjectIds \cup {None}
\* Transaction ids a request may name: the live ones and one that is not.
TxArgs == TxIds \cup {nextId}

\* One entry of a transferEquity request.
EquityEntries ==
    [to : MemberIds, amount : {0, SharePrice * Cent}, shares : {0, 1}]
\* One entry of a bulkAddDeposits request.
BulkEntries == [member : MemberIds, amount : {40050}]

\* Non-empty sequences over S of length at most n.
SeqsUpTo(S, n) == UNION {[1..k -> S] : k \in 1..n}

Call_addDeposit ==
    \E m \in MemberIds, a \in AmountArgs, f \in FundIds, st \in StatusArgs,
       env \in EnvNoAudit :
       addDeposit(m, a, f, st, Cashier, env)

\* The values the Transaction schema admits for status, or none given.
StatusEnumArgs ==
    {None, "Success", "Processing", "Failed", "Pending", "Flagged",
     "Completed"}

\* addDeposit with any status the schema admits in the request body.
Call_addDepositAnyStatus ==
    \E m \in MemberIds, a \in AmountArgs, f \in FundIds,
       st \in StatusEnumArgs, env \in EnvNoAudit :
       addDeposit(m, a, f, st, Cashier, env)

Call_approveDeposit ==
    \E id \in TxArgs, env \in EnvNoAudit : approveDeposit(id, Admin, env)

Call_editDeposit ==
    \E id \in TxArgs, m \in MemberIds, a \in AmountArgs, f \in FundIds,
       env \in Env :
       editDeposit(id, m, a, f, Admin, env)

Call_bulkAddDeposits ==
    \E f \in FundIds, deps \in SeqsUpTo(BulkEntries, MaxBulk), env \in Env :
       bulkAddDeposits(f, deps, Cashier, env)

Call_addExpense ==
    \E a \in AmountArgs, f \in FundIds, p \in ProjectArgs, env \in EnvNoAudit :
       addExpense(a, f, p, Cashier, env)

Call_editExpense ==
    \E id \in TxArgs, a \in AmountArgs, f \in FundIds, p \in ProjectArgs,
       env \in Env :
       editExpense(id, a, f, p, Admin, env)

Call_addEarning ==
    \E a \in AmountArgs, f \in FundIds, p \in ProjectArgs, env \in EnvNoAudit :
       addEarning(a, f, p, Cashier, env)

Call_deleteTransaction ==
    \E id \in TxArgs, env \in EnvNoAudit : deleteTransaction(id, Admin, env)

Call_transferFunds ==
    \E s \in FundIds, t \in FundIds, a \in AmountArgs, env \in EnvNoAudit :
       transferFunds(s, t, a, Admin, env)

Call_distributeDividends ==
    \E ty \in {"Project", "Global"}, a \in DividendAmounts \cup {0},
       p \in ProjectIds, f \in FundIds, env \in Env :
       distributeDividends(ty, a, p, f, Admin, env)

Call_transferEquity ==
    \E from \in MemberIds, xfers \in SeqsUpTo(EquityEntries, MaxTransfers),
       env \in Env :
       transferEquity(from, xfers, Admin, env)

Call_reconcileFund == \E f \in FundIds : reconcileFund(f, Admin)

Call_createProject ==
    \E p \in ProjectIds, a \in AmountArgs, env \in EnvNoAudit :
       createProject(p, a, Admin, env)

Call_addProjectUpdate ==
    \E p \in ProjectIds, ty \in {"Earning", "Expense"}, a \in Amounts,
       env \in Env :
       addProjectUpdate(p, ty, a, Admin, env)

Call_editProjectUpdate ==
    \E p \in ProjectIds, i \in 1..2, ty \in {"Earning", "Expense"},
       a \in Amounts, env \in Env :
       editProjectUpdate(p, i, ty, a, Admin, env)

Call_deleteProjectUpdate ==
    \E p \in ProjectIds, i \in 1..2, env \in Env :
       deleteProjectUpdate(p, i, Admin, env)

(* --------------------------- specifications ---------------------------- *)

\* The whole ledger: every operation, in any order.
Next ==
    \/ Call_addDeposit
    \/ Call_approveDeposit
    \/ Call_editDeposit
    \/ Call_bulkAddDeposits
    \/ Call_addExpense
    \/ Call_editExpense
    \/ Call_addEarning
    \/ Call_deleteTransaction
    \/ Call_transferFunds
    \/ Call_distributeDividends
    \/ Call_transferEquity
    \/ Call_reconcileFund
    \/ Call_createProject
    \/ Call_addProjectUpdate
    \/ Call_editProjectUpdate
    \/ Call_deleteProjectUpdate
    \/ nextRequest

Spec == Init /\ [][Next]_vars

\* The specifications below run parts of the ledger, each deep enough for
\* the operations it is about.

\* Deposits: recorded, approved, entered in bulk and deleted.
NextDeposit ==
    \/ Call_addDeposit
    \/ Call_approveDeposit
    \/ Call_bulkAddDeposits
    \/ Call_deleteTransaction
    \/ nextRequest

SpecDeposit == InitDeposit /\ [][NextDeposit]_vars

\* Projects and the money of their funds: expenses, earnings, transfers,
\* inline updates and deletions.
NextProject ==
    \/ Call_createProject
    \/ Call_addExpense
    \/ Call_addEarning
    \/ Call_transferFunds
    \/ Call_deleteTransaction
    \/ Call_addProjectUpdate
    \/ Call_editProjectUpdate
    \/ Call_deleteProjectUpdate
    \/ nextRequest

SpecProject == InitProject /\ [][NextProject]_vars

\* Expenses, earnings and transfers over the funds and the project fund.
NextMoney ==
    \/ Call_createProject
    \/ Call_addExpense
    \/ Call_addEarning
    \/ Call_transferFunds
    \/ nextRequest

SpecMoney == InitMoney /\ [][NextMoney]_vars

\* Dividend distributions over varied holdings and pools.
NextDividend ==
    \/ Call_distributeDividends
    \/ nextRequest

SpecDividend == InitDividend /\ [][NextDividend]_vars

\* Amounts of the distributions whose residual is examined, in cents: 0.49
\* and 100.00.
ResidualAmounts == {49, 10000}

(* Dividend distributions of small and round amounts over the holdings and
   pools of InitDividend. *)
InitResidual ==
    \E s1 \in DividendShares, s2 \in DividendShares, s3 \in DividendShares,
       st3 \in {"active", "inactive"}, inv \in DividendPools :
       /\ members = [m \in MemberIds |->
                        IF m = "M1" THEN NewMember(s1, "active")
                        ELSE IF m = "M2" THEN NewMember(s2, "active")
                        ELSE NewMember(s3, st3)]
       /\ funds = Put(DebitFund(OpenedFunds, "F1", inv), "PF",
                      NewProjectFund(inv))
       /\ projects = [p \in {"P1"} |-> NewProject(p, inv)]
       /\ txs = {OpeningRecord(1, "F1", OpeningBalance)} \cup
                (IF inv > 0 THEN FundingRecords(2, "P1", "F1", inv, Admin)
                 ELSE {})
       /\ nextId = IF inv > 0 THEN 4 ELSE 2
       /\ deleted = {}
       /\ last = Idle
       /\ sessions = NoSessions /\ auditLog = {}
       /\ room = MaxTxResidual
       /\ undo = NoUndo(FALSE)

NextResidual ==
    \/ \E ty \in {"Project", "Global"}, a \in ResidualAmounts,
          p \in ProjectIds, f \in FundIds, env \in Env :
          distributeDividends(ty, a, p, f, Admin, env)
    \/ nextRequest

SpecResidual == InitResidual /\ [][NextResidual]_vars

\* Equity transfers over varied holdings.
NextEquity ==
    \/ Call_transferEquity
    \/ nextRequest

SpecEquity == InitEquity /\ [][NextEquity]_vars

\* Deposits recorded with any status, and their approval.
NextApproval ==
    \/ Call_addDepositAnyStatus
    \/ Call_approveDeposit
    \/ nextRequest

SpecApproval == InitApproval /\ [][NextApproval]_vars

\* Deposits and expenses, with reconciliation of the funds.
NextReconcile ==
    \/ Call_addDeposit
    \/ Call_addExpense
    \/ Call_reconcileFund
    \/ nextRequest

SpecReconcile == InitReconcile /\ [][NextReconcile]_vars

\* Apply, then delete: one operation that creates transactions is applied,
\* then records are deleted; deleting a record the operation did not create
\* ends the history.
NextUndo ==
    \/ Fresh /\ Call_addDeposit
    \/ Fresh /\ Call_addExpense
    \/ Fresh /\ Call_addEarning
    \/ Fresh /\ Call_transferFunds
    \/ Fresh /\ Call_distributeDividends
    \/ Fresh /\ Call_transferEquity
    \/ Call_deleteTransaction
    \/ nextRequest

SpecUndo == InitUndo /\ [][NextUndo]_vars

(* Two requests on fund F1 served concurrently, step by step. *)
InitRace == InitLedger /\ room = MaxTxRace /\ undo = NoUndo(FALSE)

NextRace ==
    \/ \E s \in SessionIds, req \in RaceRequests : beginSession(s, req)
    \/ \E s \in SessionIds : saveSession(s)
    \/ \E s \in SessionIds, env \in EnvNoAudit : commitSession(s, Cashier, env)

SpecRace == InitRace /\ [][NextRace]_vars

\* The deposits member M1 made into F1 that wait for approval, as
\* addDeposit records them: no balance is touched.
PendingDeposit(id, amount) ==
    Tx(id, "Deposit", amount, "Pending", "F1", "M1", None,
       <<OpeningBalance, OpeningBalance>>, Cashier, 0)

(* Approvals of pending deposits served concurrently, step by step. *)
InitApprovalRace ==
    /\ funds = OpenedFunds
    /\ members = [m \in {"M1", "M2"} |->
                    NewMember(IF m = "M1" THEN 1 ELSE 2, "active")]
    /\ projects = [p \in {} |-> 0]
    /\ \E a \in Amounts, b \in Amounts :
          txs = {OpeningRecord(1, "F1", OpeningBalance),
                 PendingDeposit(2, a), PendingDeposit(3, b)}
    /\ nextId = 4
    /\ deleted = {}
    /\ last = Idle
    /\ sessions = NoSessions /\ auditLog = {}
    /\ room = MaxTxRace
    /\ undo = NoUndo(FALSE)

NextApprovalRace ==
    \/ \E s \in SessionIds, req \in ApprovalRequests : beginSession(s, req)
    \/ \E s \in SessionIds : saveSession(s)
    \/ \E s \in SessionIds, env \in EnvNoAudit : commitSession(s, Admin, env)

SpecApprovalRace == InitApprovalRace /\ [][NextApprovalRace]_vars

\* Initial investment of the project of the expense-edit runs, in cents.
EditInvestment == 500 * Cent

(* Expenses are recorded and edited; project P1 exists, funded from F1
   with 500.00, so that F1 and the project fund PF hold 500.00 each. *)
InitExpenseEdit ==
    /\ members = [m \in {"M1", "M2"} |->
                    NewMember(IF m = "M1" THEN 1 ELSE 2, "active")]
    /\ funds = Put(DebitFund(OpenedFunds, "F1", EditInvestment), "PF",
                   NewProjectFund(EditInvestment))
    /\ projects = [p \in {"P1"} |-> NewProject(p, EditInvestment)]
    /\ txs = {OpeningRecord(1, "F1", OpeningBalance)} \cup
             FundingRecords(2, "P1", "F1", EditInvestment, Admin)
    /\ nextId = 4
    /\ deleted = {}
    /\ last = Idle
    /\ sessions = NoSessions /\ auditLog = {}
    /\ room = MaxTxExpenseEdit
    /\ undo = NoUndo(FALSE)

NextExpenseEdit ==
    \/ Call_addExpense
    \/ Call_editExpense
    \/ nextRequest

SpecExpenseEdit == InitExpenseEdit /\ [][NextExpenseEdit]_vars

\* Entries of the batches of the bulk runs: members that exist and one that
\* does not, amounts of 0, 400.50 and 1000.00.
BatchEntries == [member : MemberIds, amount : AmountArgs]

InitBulk == InitLedger /\ room = MaxTxBulk /\ undo = NoUndo(FALSE)

(* Batches of deposits, one after the other. *)
NextBulk ==
    \/ \E f \in FundIds, deps \in SeqsUpTo(BatchEntries, MaxBulk),
          env \in Env :
          bulkAddDeposits(f, deps, Cashier, env)
    \/ nextRequest

SpecBulk == InitBulk /\ [][NextBulk]_vars

(* A reconciliation of F1 or F2 runs step by step while completed deposits
   into F1 and expenses from it are served. *)
InitReconcileRace ==
    InitLedger /\ room = MaxTxReconcileRace /\ undo = NoUndo(FALSE)

NextReconcileRace ==
    \/ \E a \in Amounts, env \in EnvNoAudit :
          addDeposit("M1", a, "F1", "Completed", Cashier, env)
    \/ \E a \in Amounts, env \in EnvNoAudit :
          addExpense(a, "F1", None, Cashier, env)
    \/ \E f \in {"F1", "F2"} : readFund(1, f)
    \/ aggregateFund(1)
    \/ nextRequest

SpecReconcileRace == InitReconcileRace /\ [][NextReconcileRace]_vars

(* Members registered with no shares deposit, pass their contributions on
   to the other member, and have their deposits deleted or edited (edits
   while the history is kept). *)
InitHoldings ==
    /\ funds = OpenedFunds
    /\ members = [m \in {"M1", "M2"} |-> NewMember(0, "active")]
    /\ projects = [p \in {} |-> 0]
    /\ txs = {OpeningRecord(1, "F1", OpeningBalance)}
    /\ nextId = 2
    /\ deleted = {}
    /\ last = Idle
    /\ sessions = NoSessions /\ auditLog = {}
    /\ room = MaxTxHoldings
    /\ undo = NoUndo(TRUE)

NextHoldings ==
    \/ \E m \in {"M1", "M2"}, a \in Amounts, env \in EnvNoAudit :
          addDeposit(m, a, "F1", "Completed", Cashier, env)
    \/ \E from \in {"M1", "M2"}, to \in {"M1", "M2"}, a \in Amounts,
          env \in Env :
          transferEquity(from, <<[to |-> to, amount |-> a, shares |-> 0]>>,
                         Admin, env)
    \/ \E id \in TxArgs, m \in {"M1", "M2"}, a \in AmountArgs, env \in Env :
          undo.on /\ editDeposit(id, m, a, "F1", Admin, env)
    \/ Call_deleteTransaction
    \/ nextRequest

SpecHoldings == InitHoldings /\ [][NextHoldings]_vars

(* Members registered without shares deposit, have deposits approved and
   deleted, transfer equity, and the totals are recalculated. *)
InitFinancials ==
    /\ funds = OpenedFunds
    /\ members = [m \in {"M1", "M2"} |-> NewMember(0, "active")]
    /\ projects = [p \in {} |-> 0]
    /\ txs = {OpeningRecord(1, "F1", OpeningBalance)}
    /\ nextId = 2
    /\ deleted = {}
    /\ last = Idle
    /\ sessions = NoSessions /\ auditLog = {}
    /\ room = MaxTxFinancials
    /\ undo = NoUndo(FALSE)

Call_recalculateMemberFinancials ==
    \E env \in EnvNoAudit : recalculateMemberFinancials(Admin, env)

NextFinancials ==
    \/ \E m \in {"M1", "M2"}, st \in {"Pending", "Completed"},
          env \in EnvNoAudit :
          addDeposit(m, SharePrice * Cent, "F1", st, Cashier, env)
    \/ Call_approveDeposit
    \/ Call_deleteTransaction
    \/ \E from \in {"M1", "M2"}, to \in {"M1", "M2"}, sh \in {0, 1},
          env \in Env :
          transferEquity(from, <<[to |-> to, amount |-> SharePrice * Cent,
                                  shares |-> sh]>>, Admin, env)
    \/ Call_recalculateMemberFinancials
    \/ nextRequest

SpecFinancials == InitFinancials /\ [][NextFinancials]_vars

(* Projects are created, charged, terminated; records are deleted. *)
InitPurge == InitLedger /\ room = MaxTxPurge /\ undo = NoUndo(FALSE)

Call_deleteProject ==
    \E p \in ProjectIds, env \in EnvNoAudit : deleteProject(p, Admin, env)

NextPurge ==
    \/ Call_createProject
    \/ Call_deleteProject
    \/ Call_addExpense
    \/ Call_deleteTransaction
    \/ nextRequest

SpecPurge == InitPurge /\ [][NextPurge]_vars

(* Expenses are recorded and edited and funds retyped, after F1 and F2 were
   opened, M1 and M2 registered and project P1 created with an initial
   investment of 100.00 drawn from F1. *)
InitScope ==
    /\ members = [m \in {"M1", "M2"} |->
                    NewMember(IF m = "M1" THEN 1 ELSE 2, "active")]
    /\ funds = Put(DebitFund(OpenedFunds, "F1", ScopeInvestment), "PF",
                   NewProjectFund(ScopeInvestment))
    /\ projects = [p \in {"P1"} |-> NewProject(p, ScopeInvestment)]
    /\ txs = {OpeningRecord(1, "F1", OpeningBalance)} \cup
             FundingRecords(2, "P1", "F1", ScopeInvestment, Admin)
    /\ nextId = 4
    /\ deleted = {}
    /\ last = Idle
    /\ sessions = NoSessions /\ auditLog = {}
    /\ room = MaxTxScope
    /\ undo = NoUndo(FALSE)

Call_updateFund == \E f \in FundIds, type \in FundTypeArgs : updateFund(f, type)

NextScope ==
    \/ Call_addExpense
    \/ Call_editExpense
    \/ Call_updateFund
    \/ nextRequest

SpecScope == InitScope /\ [][NextScope]_vars

(* Deposits and expenses are recorded, records deleted, funds deleted. *)
InitFund == InitLedger /\ room = MaxTxFund /\ undo = NoUndo(FALSE)

Call_deleteFund == \E f \in FundIds : deleteFund(f)

NextFund ==
    \/ Call_addDeposit
    \/ Call_addExpense
    \/ Call_deleteTransaction
    \/ Call_deleteFund
    \/ nextRequest

SpecFund == InitFund /\ [][NextFund]_vars

(* Deposits are recorded and one of them is edited: the history
   is kept up to the first committed edit, and edits are offered while it is
   kept. *)
InitEdit == InitLedger /\ room = MaxTxEdit /\ undo = NoUndo(TRUE)

NextEdit ==
    \/ Call_addDeposit
    \/ undo.on /\ Call_editDeposit
    \/ nextRequest

SpecEdit == InitEdit /\ [][NextEdit]_vars

\* Members registered with no shares (totalContributed 0) and the deposit
\* operations on them; edits are offered while the history is kept.
InitContribution ==
    /\ funds = OpenedFunds
    /\ members = [m \in {"M1", "M2"} |-> NewMember(0, "active")]
    /\ projects = [p \in {} |-> 0]
    /\ txs = {OpeningRecord(1, "F1", OpeningBalance)}
    /\ nextId = 2
    /\ deleted = {}
    /\ last = Idle
    /\ sessions = NoSessions /\ auditLog = {}
    /\ room = MaxTxContribution
    /\ undo = NoUndo(TRUE)

\* The members and the fund the deposit requests of these runs name.
ContributionMembers == {"M1", "M2"}
ContributionFund == "F1"

NextContribution ==
    \/ \E m \in ContributionMembers, a \in AmountArgs, st \in StatusArgs,
          env \in EnvNoAudit :
          addDeposit(m, a, ContributionFund, st, Cashier, env)
    \/ Call_approveDeposit
    \/ \E id \in TxArgs, m \in ContributionMembers, a \in AmountArgs,
          env \in Env :
          undo.on /\ editDeposit(id, m, a, ContributionFund, Admin, env)
    \/ \E deps \in SeqsUpTo([member : ContributionMembers, amount : {40050}],
                            MaxBulk), env \in Env :
          bulkAddDeposits(ContributionFund, deps, Cashier, env)
    \/ Call_deleteTransaction
    \/ nextRequest

SpecContribution == InitContribution /\ [][NextContribution]_vars

\* Amounts of either sign a request body may carry, in cents: -1000.00,
\* -0.50 and 400.50.
SignedAmounts == {-100000, -50, 40050}

InitSign == InitLedger /\ room = MaxTxSign /\ undo = NoUndo(TRUE)

\* Requests with amounts of either sign on fund F1 and the members M1 and
\* M2; deposits are edited while the history is kept.
NextSign ==
    \/ \E a \in SignedAmounts, env \in EnvNoAudit :
          addDeposit("M1", a, "F1", "Completed", Cashier, env)
    \/ \E a \in SignedAmounts, env \in EnvNoAudit :
          addExpense(a, "F1", None, Cashier, env)
    \/ \E id \in TxArgs, a \in SignedAmounts, env \in Env :
          undo.on /\ editDeposit(id, "M1", a, "F1", Admin, env)
    \/ \E id \in TxArgs, a \in SignedAmounts, env \in Env :
          editExpense(id, a, "F1", None, Admin, env)
    \/ \E xfers \in SeqsUpTo([to : {"M2"}, amount : SignedAmounts,
                               shares : {0}], MaxTransfers), env \in Env :
          transferEquity("M1", xfers, Admin, env)
    \/ nextRequest

SpecSign == InitSign /\ [][NextSign]_vars

(* ------------------------------- claims -------------------------------- *)

\* The records a step adds to the Transaction collection.
Created == txs' \ txs

\* A request of the given operation is answered in this step.
Answers(op) == Ready /\ last'.op = op

\* Every fund outside F keeps its state.
OtherFundsKept(F) == \A g \in DOMAIN funds \ F : funds'[g] = funds[g]

\* The net of the Success/Completed transactions of fund f: Deposit, Earning
\* and Investment count as inflow, Expense, Withdrawal and Dividend as outflow.
NetOfTransactions(f) ==
    SumOver({t \in txs : t.fundId = f /\ IsCompleted(t.status)},
            [t \in txs |->
                IF t.type \in {"Deposit", "Earning", "Investment"} THEN t.amount
                ELSE IF t.type \in {"Expense", "Withdrawal", "Dividend"}
                THEN -t.amount
                ELSE 0])

\* C1: after any sequence of committed ledger operations every fund's
\* balance equals the net of its Success/Completed transactions.
C1_FundLedgerInvariant ==
    \A f \in DOMAIN funds : funds[f].balance = NetOfTransactions(f)

\* C2: every addDeposit that commits a Deposit whose stored status is
\* Completed or Success credits the fund and the member's totalContributed by
\* exactly the amount, and stores balanceBefore = the fund's balance before
\* the call and balanceAfter - balanceBefore = amount.
C2_CompletedDepositCredits ==
    [][(Answers("addDeposit") /\ last'.committed) =>
        \A t \in Created :
            IsCompleted(t.status) =>
                /\ funds'[t.fundId].balance = funds[t.fundId].balance + t.amount
                /\ members'[t.memberId].totalContributed =
                       members[t.memberId].totalContributed + t.amount
                /\ t.snapshot[1] = funds[t.fundId].balance
                /\ t.snapshot[2] - t.snapshot[1] = t.amount]_vars

\* C3: every successful approveDeposit credits the deposit's fund and its
\* member's totalContributed by exactly the amount, sets the status to
\* Completed with the approver as authorizedBy, and leaves the stored
\* snapshot with balanceAfter - balanceBefore = amount, balanceAfter being
\* the fund's balance at approval time.
C3_ApprovalCreditsAndSnapshots ==
    [][(Answers("approveDeposit") /\ last'.committed) =>
        \A t \in txs \ txs' :
            LET u == CHOOSE x \in txs' : x.id = t.id
            IN /\ funds'[t.fundId].balance = funds[t.fundId].balance + t.amount
               /\ members'[t.memberId].totalContributed =
                      members[t.memberId].totalContributed + t.amount
               /\ u.status = "Completed"
               /\ u.authorizedBy = Admin
               /\ u.snapshot[2] - u.snapshot[1] = t.amount
               /\ u.snapshot[2] = funds'[t.fundId].balance]_vars

\* C4: applying a ledger operation and then deleting the record(s) it
\* created restores every fund balance, every member's totalContributed and
\* shares, and every project's currentFundBalance, totalEarnings and
\* totalExpenses to their values before the operation.
C4_DeleteRestoresBalances ==
    (undo.active /\ undo.left = {}) => Balances = undo.pre

\* C5: an operation whose mutation has committed never reports failure to
\* the caller, whatever happens to audit logging and stats recomputation.
C5_CommittedReportsSuccess == last.committed => last.ok

\* C6: for every project with a linked fund, the project's
\* currentFundBalance equals the linked fund's balance.
C6_ProjectMirrorsLinkedFund ==
    \A p \in DOMAIN projects :
        projects[p].linkedFundId \in DOMAIN funds =>
            projects[p].currentFundBalance =
                funds[projects[p].linkedFundId].balance

\* C7: an addExpense whose amount does not exceed the source fund's balance
\* (on an existing fund, naming an existing project or, on a fund that is not
\* a PROJECT fund, none) commits, debits the fund and, if a project is given,
\* its currentFundBalance by exactly the amount, adds the amount to the
\* project's totalExpenses and appends one inline Expense update, and is
\* answered with success when the stats recomputation succeeds; an addExpense
\* whose amount exceeds the fund's balance fails, and a failed addExpense
\* changes no fund, project or transaction.
C7_ExpenseDebitsExactly ==
    [][\A a \in AmountArgs, f \in FundIds, p \in ProjectArgs,
          env \in EnvNoAudit :
          (Answers("addExpense") /\ addExpense(a, f, p, Cashier, env)) =>
            IF /\ f \in DOMAIN funds
               /\ a <= funds[f].balance
               /\ p = None => funds[f].type # "PROJECT"
               /\ p # None => p \in DOMAIN projects
            THEN /\ last'.committed
                 /\ env = "ok" => last'.ok
                 /\ funds'[f].balance = funds[f].balance - a
                 /\ OtherFundsKept({f})
                 /\ \E t \in Created :
                       /\ Created = {t}
                       /\ t.type = "Expense" /\ t.amount = a
                       /\ t.fundId = f /\ t.projectId = p
                 /\ IF p = None THEN projects' = projects
                    ELSE /\ projects'[p].currentFundBalance =
                                projects[p].currentFundBalance - a
                         /\ projects'[p].totalExpenses =
                                projects[p].totalExpenses + a
                         /\ projects'[p].totalEarnings =
                                projects[p].totalEarnings
                         /\ Len(projects'[p].updates) =
                                Len(projects[p].updates) + 1
                         /\ SubSeq(projects'[p].updates, 1,
                                   Len(projects[p].updates)) =
                                projects[p].updates
                         /\ LET u == projects'[p].updates[
                                         Len(projects'[p].updates)]
                            IN u.type = "Expense" /\ u.amount = a
            ELSE /\ ~last'.committed /\ ~last'.ok
                 /\ UNCHANGED <<funds, members, projects, txs, deleted>>]_vars

\* C7, reached: an expense on a project was committed, and the project
\* carries its inline update.
C7_ProjectExpenseCommitted ==
    /\ last.op = "addExpense" /\ last.committed
    /\ \E t \in txs :
          /\ t.id = nextId - 1 /\ t.type = "Expense" /\ t.amount > 0
          /\ t.projectId \in DOMAIN projects
          /\ Len(projects[t.projectId].updates) > 0

\* The sum of all fund balances.
TotalFunds(fs) == SumOver(DOMAIN fs, [g \in DOMAIN fs |-> fs[g].balance])

\* C8: transferFunds takes effect exactly when source and target are
\* distinct existing funds, amount > 0 and the source's balance >= amount;
\* then the source decreases and the target increases by exactly amount, the
\* sum of all fund balances is unchanged, and exactly two transactions are
\* written, a Withdrawal on the source and an Investment on the target, each
\* with balanceBefore the fund's old and balanceAfter its new balance, and
\* the caller is answered with success when the stats recomputation
\* succeeds; otherwise the call fails and nothing changes.
C8_TransferExactlyWhenAllowed ==
    [][\A s \in FundIds, t \in FundIds, a \in AmountArgs, env \in EnvNoAudit :
          (Answers("transferFunds") /\ transferFunds(s, t, a, Admin, env)) =>
            IF /\ s # t
               /\ s \in DOMAIN funds /\ t \in DOMAIN funds
               /\ a > 0
               /\ funds[s].balance >= a
            THEN /\ last'.committed
                 /\ env = "ok" => last'.ok
                 /\ funds'[s].balance = funds[s].balance - a
                 /\ funds'[t].balance = funds[t].balance + a
                 /\ OtherFundsKept({s, t})
                 /\ TotalFunds(funds') = TotalFunds(funds)
                 /\ Cardinality(Created) = 2
                 /\ \E out \in Created, in \in Created :
                       /\ out.type = "Withdrawal" /\ out.fundId = s
                       /\ out.amount = a
                       /\ out.snapshot =
                            <<funds[s].balance, funds'[s].balance>>
                       /\ in.type = "Investment" /\ in.fundId = t
                       /\ in.amount = a
                       /\ in.snapshot =
                            <<funds[t].balance, funds'[t].balance>>
                 /\ UNCHANGED <<members, projects, deleted>>
            ELSE /\ ~last'.committed /\ ~last'.ok
                 /\ UNCHANGED <<funds, members, projects, txs, deleted>>]_vars

\* C8, reached: a transfer was committed and its two records are stored.
C8_TransferCommitted ==
    /\ last.op = "transferFunds" /\ last.committed
    /\ \E out \in txs, in \in txs :
          /\ out.id = nextId - 2 /\ out.type = "Withdrawal"
          /\ in.id = nextId - 1 /\ in.type = "Investment"
          /\ out.amount > 0 /\ in.amount = out.amount
          /\ out.fundId # in.fundId

\* C9: in every successful distributeDividends each recipient's reward is
\* floor(shares * (amount / totalActiveShares) * 100) / 100, the rewards sum
\* to no more than the requested amount, and the pool (fund balance or
\* project currentFundBalance) decreases by exactly their sum; shares
\* {10, 20, 30} and amount 100.00 give 16.66, 33.33 and 50.00.
C9_RewardsFollowFormula ==
    [][(Answers("distributeDividends") /\ last'.committed) =>
            LET ty == last'.args.type
                a == last'.args.amount
                p == last'.args.project
                f == last'.args.fund
                holders == {m \in DOMAIN members :
                               members[m].status = "active"
                               /\ members[m].shares > 0}
                total == SumOver(holders,
                                 [m \in DOMAIN members |-> members[m].shares])
                paid == SumOver(Created, [t \in Created |-> t.amount])
            IN /\ \A t \in Created :
                     /\ t.type = "Dividend"
                     /\ t.memberId \in holders
                     /\ t.amount =
                          (members[t.memberId].shares * a) \div total
               /\ \A m \in holders :
                     (members[m].shares * a) \div total > 0 =>
                        \E t \in Created : t.memberId = m
               /\ paid <= a
               /\ IF ty = "Project"
                  THEN projects'[p].currentFundBalance =
                          projects[p].currentFundBalance - paid
                  ELSE funds'[f].balance = funds[f].balance - paid
               /\ (a = 10000
                   /\ {members[m].shares : m \in holders} = {10, 20, 30}
                   /\ Cardinality(holders) = 3) =>
                      /\ {t.amount : t \in Created} = {1666, 3333, 5000}
                      /\ paid = 9999]_vars

\* C10: after a successful transferEquity the source's totalContributed and
\* shares have decreased by exactly the sums transferred, each target has
\* gained exactly what is listed for it, the totals over all members are
\* unchanged, and the source's status has become inactive if both its
\* totalContributed and its shares are zero, and is unchanged otherwise.
C10_EquityTransferZeroSum ==
    [][(Answers("transferEquity") /\ last'.committed) =>
            LET from == last'.args.from
                xfers == last'.args.transfers
                entries == 1..Len(xfers)
                amountOf == [i \in entries |-> xfers[i].amount]
                sharesOf == [i \in entries |-> xfers[i].shares]
                to(m) == {i \in entries : xfers[i].to = m}
                contributed(ms) ==
                    SumOver(DOMAIN ms,
                            [m \in DOMAIN ms |-> ms[m].totalContributed])
                held(ms) ==
                    SumOver(DOMAIN ms, [m \in DOMAIN ms |-> ms[m].shares])
                drained == /\ members'[from].totalContributed = 0
                           /\ members'[from].shares = 0
            IN /\ DOMAIN members' = DOMAIN members
               /\ members'[from].totalContributed =
                      members[from].totalContributed
                        - SumOver(entries, amountOf)
               /\ members'[from].shares =
                      members[from].shares - SumOver(entries, sharesOf)
               /\ \A m \in DOMAIN members \ {from} :
                     /\ members'[m].totalContributed =
                            members[m].totalContributed
                              + SumOver(to(m), amountOf)
                     /\ members'[m].shares =
                            members[m].shares + SumOver(to(m), sharesOf)
                     /\ members'[m].status = members[m].status
               /\ contributed(members') = contributed(members)
               /\ held(members') = held(members)
               /\ drained => members'[from].status = "inactive"
               /\ ~drained => members'[from].status = members[from].status
               /\ UNCHANGED <<funds, projects>>]_vars

\* C10, reached: a transfer of a positive amount was committed and left its
\* source with no contribution and no shares, inactive.
C10_SourceDrained ==
    /\ last.op = "transferEquity" /\ last.committed
    /\ \E t \in txs :
          /\ t.id = nextId - 1 /\ t.type = "Equity-Transfer" /\ t.amount > 0
          /\ members[t.memberId].totalContributed = 0
          /\ members[t.memberId].shares = 0
          /\ members[t.memberId].status = "inactive"

C12_ReconcileReadOnlyIdempotent ==
    [][\A f \in FundIds :
          (Answers("reconcileFund") /\ last'.committed
           /\ last'.args.fund = f) =>
             /\ \A g \in DOMAIN funds : funds'[g].balance = funds[g].balance
             /\ DOMAIN funds' = DOMAIN funds
             /\ UNCHANGED <<txs, members, projects, deleted>>
             /\ CalculatedBalance(f)' = CalculatedBalance(f)
             /\ IsMatched(f)' = IsMatched(f)
             /\ funds'[f].reconciliationStatus =
                    IF IsMatched(f)' THEN "VERIFIED" ELSE "DISCREPANCY"]_vars

\* C12, reached: a reconciliation found a fund whose balance differs from
\* the net of its transactions and flagged it.
C12_DiscrepancyFlagged ==
    /\ last.op = "reconcileFund" /\ last.committed
    /\ funds[last.args.fund].reconciliationStatus = "DISCREPANCY"
    /\ ~IsMatched(last.args.fund)

\* The operations that are not the equity operation.
NonEquityOps ==
    {"addDeposit", "approveDeposit", "editDeposit", "bulkAddDeposits",
     "addExpense", "addEarning", "transferFunds", "distributeDividends",
     "deleteTransaction"}

\* C13: addDeposit, approveDeposit, editDeposit, bulkAddDeposits,
\* addExpense, addEarning, transferFunds, distributeDividends and
\* deleteTransaction (the deletion of a completed Deposit included) leave
\* every member's shares unchanged.
C13_SharesOnlyByEquity ==
    [][(Ready /\ last'.op \in NonEquityOps) =>
          /\ DOMAIN members' = DOMAIN members
          /\ \A m \in DOMAIN members :
                members'[m].shares = members[m].shares]_vars

\* C14: approveDeposit on a transaction whose status is already Completed
\* or Success fails with an error and changes nothing; an approval that
\* takes effect finds the transaction not yet completed and leaves it
\* Completed, and no step takes a live transaction out of Completed or
\* Success, so a deposit is credited by approval at most once.
C14_ApprovedAtMostOnce ==
    [][/\ \A id \in TxArgs, env \in EnvNoAudit :
             (/\ Answers("approveDeposit")
              /\ approveDeposit(id, Admin, env)
              /\ id \in TxIds
              /\ IsCompleted(TxById(id).status)) =>
                /\ ~last'.committed /\ ~last'.ok
                /\ last'.error # NoError
                /\ UNCHANGED <<funds, members, projects, txs, deleted>>
       /\ (Answers("approveDeposit") /\ last'.committed) =>
             /\ ~IsCompleted(TxById(last'.args.tx).status)
             /\ \E u \in txs' :
                   u.id = last'.args.tx /\ u.status = "Completed"
       /\ \A t \in txs :
             IsCompleted(t.status) =>
                \A u \in txs' : u.id = t.id => IsCompleted(u.status)]_vars

\* C14, reached: a deposit was approved, and a second approval of it was
\* refused as already approved.
C14_SecondApprovalRefused ==
    /\ last.op = "approveDeposit" /\ last.error = "alreadyApproved"
    /\ \E t \in txs :
          /\ t.type = "Deposit" /\ t.status = "Completed"
          /\ t.authorizedBy = Admin /\ t.memberId \in DOMAIN members
          /\ t.snapshot # << >> /\ t.snapshot[1] = t.snapshot[2]

\* C15: the only status transition approveDeposit performs is Pending to
\* Completed: an approval that takes effect starts from a Pending
\* transaction, and a transaction whose status is Failed, Flagged or
\* Processing is left as it is, with no fund or member credited for it.
C15_ApprovalOnlyFromPending ==
    [][Answers("approveDeposit") =>
          /\ last'.committed =>
                TxById(last'.args.tx).status = "Pending"
          /\ \A t \in txs :
                t.status \in {"Failed", "Flagged", "Processing"} =>
                   t \in txs']_vars

\* The check the handler would fail on when it ran alone on the committed
\* documents.
SerialError(req) ==
    IF req.op = "addExpense" THEN addExpenseError(req.amount, req.fund, None)
    ELSE IF req.op = "transferFunds"
    THEN transferFundsError(req.fund, req.other, req.amount)
    ELSE addDepositError(req.other, req.amount, req.fund, None)

\* The funds as the handler would leave them when it ran alone on the
\* committed documents.
SerialFunds(req) ==
    IF req.op = "addExpense" THEN DebitFund(funds, req.fund, req.amount)
    ELSE IF req.op = "transferFunds"
    THEN CreditFund(DebitFund(funds, req.fund, req.amount), req.other,
                    req.amount)
    ELSE CreditFund(funds, req.fund, req.amount)

\* C16: concurrent requests on one fund are serialized.  Every step that
\* commits a request finds the committed documents in a state in which the
\* request, run alone, passes its checks, and changes the funds, the members
\* and the records exactly as the request run alone would: the committed
\* outcome is that of the serial execution of the committed requests in the
\* order of their commits.  A step that commits nothing (a refusal, a save,
\* an abort on a write conflict) changes no document, and no balance is ever
\* negative.
C16_ConcurrentRequestsSerialized ==
    [][/\ nextId' # nextId =>
            LET req == last'.args.req
            IN /\ SerialError(req) = NoError
               /\ funds' = SerialFunds(req)
               /\ members' = IF req.op = "addDeposit"
                             THEN CreditMember(members, req.other, req.amount)
                             ELSE members
               /\ txs' = txs \cup SessionRecords(req, funds, nextId, Cashier)
       /\ nextId' = nextId => UNCHANGED <<funds, members, txs>>
       /\ \A f \in DOMAIN funds' : funds'[f].balance >= 0]_vars

\* Two expenses of 1000.00 from F1 (balance 1000.00) ran concurrently: one
\* committed and emptied the fund, the other was aborted by a write conflict.
C16_RacingExpenseAborted ==
    /\ last.op = "addExpense"
    /\ last.error = "writeConflict"
    /\ funds["F1"].balance = 0
    /\ \E t \in txs : t.type = "Expense" /\ t.amount = OpeningBalance

\* The transaction ids that are archived as DeletedRecords.
ArchivedIds == {d.originalId : d \in deleted}

\* C17: no transaction is silently removed.  Every step that removes a
\* Transaction (deleteTransaction, or the purge of a project's records by
\* deleteProject) writes, in the same step, a DeletedRecord carrying the
\* transaction's id and its full data; so every id that was ever given to a
\* transaction belongs to a live transaction or to an archived one.
C17_RemovedMeansArchived ==
    [][/\ \A t \in txs :
             t.id \notin {u.id : u \in txs'} =>
                \E d \in deleted' : d.originalId = t.id /\ d.data = t
       /\ \A id \in 1..(nextId' - 1) :
             id \in {t.id : t \in txs'} \cup {d.originalId : d \in deleted'}]_vars

\* The live Expense records that name no project but a fund of type PROJECT.
GeneralOnProjectFunds(fs, ts) ==
    {t \in ts : /\ t.type = "Expense" /\ t.projectId = None
                /\ t.fundId \in DOMAIN fs /\ fs[t.fundId].type = "PROJECT"}

\* addExpense and editExpense refuse an expense that names no project and a
\* source fund of type PROJECT, and change nothing.
GeneralExpenseRefused ==
    [][/\ \A a \in AmountArgs, f \in FundIds, env \in EnvNoAudit :
             (/\ Answers("addExpense") /\ addExpense(a, f, None, Cashier, env)
              /\ f \in DOMAIN funds /\ funds[f].type = "PROJECT") =>
                /\ ~last'.committed /\ ~last'.ok
                /\ UNCHANGED <<funds, members, projects, txs, deleted>>
       /\ \A id \in TxArgs, a \in AmountArgs, f \in FundIds, env \in Env :
             (/\ Answers("editExpense")
              /\ editExpense(id, a, f, None, Admin, env)
              /\ f \in DOMAIN funds /\ funds[f].type = "PROJECT") =>
                /\ ~last'.committed /\ ~last'.ok
                /\ UNCHANGED <<funds, members, projects, txs, deleted>>]_vars

\* C18: a project-scoped fund is never debited for a general expense.
\* addExpense and editExpense refuse an expense that names no project and a
\* source fund of type PROJECT, leaving all state unchanged, and in every
\* state no live Expense without a project references a fund of type
\* PROJECT.
C18_NoGeneralExpenseOnProjectFund ==
    [][/\ \A a \in AmountArgs, f \in FundIds, env \in EnvNoAudit :
             (/\ Answers("addExpense") /\ addExpense(a, f, None, Cashier, env)
              /\ f \in DOMAIN funds /\ funds[f].type = "PROJECT") =>
                /\ ~last'.committed /\ ~last'.ok
                /\ UNCHANGED <<funds, members, projects, txs, deleted>>
       /\ \A id \in TxArgs, a \in AmountArgs, f \in FundIds, env \in Env :
             (/\ Answers("editExpense")
              /\ editExpense(id, a, f, None, Admin, env)
              /\ f \in DOMAIN funds /\ funds[f].type = "PROJECT") =>
                /\ ~last'.committed /\ ~last'.ok
                /\ UNCHANGED <<funds, members, projects, txs, deleted>>
       /\ GeneralOnProjectFunds(funds', txs') = {}]_vars

\* C19: deleteFund removes a fund only if its balance is exactly zero and no
\* Transaction references it; whenever the fund's balance is positive or
\* negative, or some transaction references the fund, deleteFund fails and
\* the fund remains as it was.
C19_DeleteFundOnlyWhenEmpty ==
    [][\A f \in FundIds :
          (Answers("deleteFund") /\ deleteFund(f) /\ f \in DOMAIN funds) =>
             IF funds[f].balance = 0 /\ ~\E t \in txs : t.fundId = f
             THEN last'.committed /\ f \notin DOMAIN funds'
             ELSE /\ ~last'.committed
                  /\ f \in DOMAIN funds' /\ funds'[f] = funds[f]]_vars

\* C20: distributeDividends fails, creating no Dividend transaction and
\* changing no fund, project or member, whenever the total shares of the
\* active members is zero, every computed reward rounds down to zero, or the
\* balance of the source pool is less than totalDisbursed.  Equivalently: a
\* distribution that is committed found active shares, at least one positive
\* reward and a pool holding at least totalDisbursed, and a distribution that
\* is not committed changes nothing.
C20_DividendRefusals ==
    [][Answers("distributeDividends") =>
          IF last'.committed
          THEN LET a == last'.args
                   pool == IF a.type = "Project"
                           THEN projects[a.project].currentFundBalance
                           ELSE funds[a.fund].balance
               IN /\ TotalActiveShares(members) # 0
                  /\ \E m \in DOMAIN members : Rewards(members, a.amount)[m] > 0
                  /\ ~(pool < TotalDisbursed(members, a.amount))
          ELSE /\ UNCHANGED <<funds, members, projects, txs, deleted>>
               /\ ~last'.ok]_vars

\* C20, reached: a distribution of 0.01 among several active holders was
\* refused because every reward rounds down to zero.
C20_RewardsTooSmall ==
    /\ last.op = "distributeDividends" /\ ~last.committed
    /\ last.error = "tooSmall"
    /\ TotalActiveShares(members) > 1
    /\ \A m \in DOMAIN members : Rewards(members, 1)[m] = 0

\* The recipient is one transferEquity accepts: not the source, existing and
\* active.
ValidTarget(from, x) ==
    /\ x.to # from
    /\ x.to \in DOMAIN members
    /\ members[x.to].status = "active"

\* C21: transferEquity is rejected, with no member and no transaction
\* changed, whenever the total amount exceeds the source's totalContributed,
\* the total shares exceed the source's shares, a target equals the source,
\* or a target does not exist or is not active, wherever in the list the
\* offending target stands.
C21_EquityTransferRefused ==
    [][Answers("transferEquity") =>
          LET from == last'.args.from
              xs == last'.args.transfers
          IN (\/ /\ from \in DOMAIN members
                 /\ \/ SumAmounts(xs) > members[from].totalContributed
                    \/ SumShares(xs) > members[from].shares
              \/ \E i \in 1..Len(xs) : ~ValidTarget(from, xs[i])) =>
                /\ ~last'.committed /\ ~last'.ok
                /\ UNCHANGED <<funds, members, projects, txs, deleted>>]_vars

\* C21, reached: a transfer within the source's holdings was refused for its
\* second recipient, after a first recipient that is valid.
C21_SecondTargetRefused ==
    /\ last.op = "transferEquity" /\ ~last.committed
    /\ last.error \in {"notFound", "inactiveTarget", "selfTransfer"}
    /\ LET from == last.args.from
           xs == last.args.transfers
       IN /\ Len(xs) = 2
          /\ from \in DOMAIN members
          /\ SumAmounts(xs) <= members[from].totalContributed
          /\ SumShares(xs) <= members[from].shares
          /\ SumAmounts(xs) > 0
          /\ ValidTarget(from, xs[1])
          /\ ~ValidTarget(from, xs[2])

\* C22: editDeposit is undo-then-redo.  A committed edit of a completed
\* deposit leaves the balances that reversing the original deposit and then
\* making a fresh completed deposit of the new amount into the new fund for
\* the new member would leave (so the net change is new - old when fund and
\* member stay, and zero when nothing is changed); a committed edit of a
\* deposit that is not completed changes no fund and no member.
C22_EditIsUndoThenRedo ==
    [][(Answers("editDeposit") /\ last'.committed) =>
          LET a == last'.args
              t == TxById(a.tx)
          IN IF IsCompleted(t.status)
             THEN /\ funds' = CreditFund(
                                 IF t.fundId \in DOMAIN funds
                                 THEN DebitFund(funds, t.fundId, t.amount)
                                 ELSE funds,
                                 a.fund, a.amount)
                  /\ members' = CreditMember(
                                   IF t.memberId \in DOMAIN members
                                   THEN DebitMember(members, t.memberId,
                                                    t.amount)
                                   ELSE members,
                                   a.member, a.amount)
             ELSE UNCHANGED <<funds, members>>]_vars

\* The ledger operations the audit trail has to cover.
AuditedOps ==
    {"addDeposit", "approveDeposit", "addExpense", "addEarning",
     "transferFunds", "distributeDividends", "transferEquity", "editDeposit",
     "editExpense", "deleteTransaction"}

\* C23: every ledger operation that commits leaves at least one new AuditLog
\* document for the operation, attributed to a signed-in user (the audit
\* store accepts writes in every committed request of the model).
C23_CommittedOpsAudited ==
    [][(Ready /\ last'.committed /\ last'.op \in AuditedOps) =>
          \E e \in auditLog' : e.action = last'.op /\ e.user # None]_vars

\* The amounts of the member's Deposit records with status Success or
\* Completed, summed.
CompletedDeposits(m) ==
    LET D == {t \in txs : t.type = "Deposit" /\ t.memberId = m
                          /\ IsCompleted(t.status)}
    IN SumOver({t.id : t \in D}, [i \in {t.id : t \in D} |-> TxById(i).amount])

\* C24: a member registered with zero contributions has, after any sequence
\* of deposit operations (addDeposit, approveDeposit, editDeposit,
\* bulkAddDeposits, deleteTransaction), a totalContributed equal to the sum
\* of the amounts of the member's Success/Completed Deposit records.
C24_ContributionsMatchDeposits ==
    \A m \in DOMAIN members :
        members[m].totalContributed = CompletedDeposits(m)

\* C25: every committed addEarning raises the target fund's balance by
\* exactly the amount and stores one Earning record whose balanceAfter is
\* balanceBefore plus the amount; with a project it also raises the
\* project's currentFundBalance and totalEarnings by the amount and appends
\* exactly one inline Earning update carrying the project balance before
\* and after; without a project no project changes.
C25_EarningCredited ==
    [][(Answers("addEarning") /\ last'.committed) =>
          LET a == last'.args
          IN /\ funds' = CreditFund(funds, a.fund, a.amount)
             /\ \E t \in txs' :
                   /\ txs' = txs \cup {t} /\ t \notin txs
                   /\ t.type = "Earning" /\ t.amount = a.amount
                   /\ t.snapshot[2] - t.snapshot[1] = a.amount
             /\ IF a.project = None
                THEN UNCHANGED projects
                ELSE LET old == projects[a.project]
                         new == projects'[a.project]
                     IN /\ new.currentFundBalance =
                              old.currentFundBalance + a.amount
                        /\ new.totalEarnings = old.totalEarnings + a.amount
                        /\ new.updates =
                              Append(old.updates,
                                     Update("Earning", a.amount,
                                            <<old.currentFundBalance,
                                              new.currentFundBalance>>))
                        /\ \A q \in DOMAIN projects \ {a.project} :
                              projects'[q] = projects[q]]_vars

\* An earning on a project was committed.
C25_ProjectEarningCommitted ==
    /\ last.op = "addEarning" /\ last.committed
    /\ last.args.project # None
    /\ \E t \in txs : t.type = "Earning" /\ t.projectId = last.args.project

\* C26: a committed deleteTransaction of a record whose status is neither
\* Completed nor Success removes the record and archives it as a
\* DeletedRecord, and changes no fund, no member (totalContributed, shares)
\* and no project.
C26_UnappliedDeleteLeavesBalances ==
    [][(/\ Answers("deleteTransaction") /\ last'.committed
        /\ ~IsCompleted(TxById(last'.args.tx).status)) =>
          LET t == TxById(last'.args.tx)
          IN /\ txs' = txs \ {t}
             /\ \E d \in deleted' \ deleted :
                   d.originalId = t.id /\ d.data = t
             /\ UNCHANGED <<funds, members, projects>>]_vars

\* A pending deposit of a member was deleted.
C26_PendingDepositDeleted ==
    /\ last.op = "deleteTransaction" /\ last.committed
    /\ \E d \in deleted :
          /\ d.originalId = last.args.tx
          /\ d.data.status = "Pending" /\ d.data.type = "Deposit"
          /\ d.data.memberId \in DOMAIN members /\ d.data.amount > 0

\* C27: every Transaction of every reachable state has amount >= 0, and a
\* ledger operation invoked with a negative amount (addExpense, editDeposit,
\* editExpense, an entry of transferEquity) commits nothing: whatever
\* commits was invoked with amounts that are not negative.
C27_NegativeAmountsCommitNothing ==
    [][(Ready /\ last'.committed) =>
          /\ \A t \in txs' : t.amount >= 0
          /\ last'.op \in {"addExpense", "editDeposit", "editExpense"} =>
                last'.args.amount >= 0
          /\ last'.op = "transferEquity" =>
                \A i \in 1..Len(last'.args.transfers) :
                    last'.args.transfers[i].amount >= 0]_vars

\* The stored amounts alone: no live Transaction has a negative amount.
C27_StoredAmountsNotNegative == \A t \in txs : t.amount >= 0

\* C28: an expense that names a project debits the project's linked fund,
\* for addExpense as for editExpense: after a committed project expense the
\* Expense record written names the linked fund of its project, and no
\* other fund's balance has changed.
C28_ProjectExpenseDebitsLinkedFund ==
    [][(/\ Ready /\ last'.committed
        /\ last'.op \in {"addExpense", "editExpense"}
        /\ last'.args.project # None) =>
          LET link == projects[last'.args.project].linkedFundId
          IN /\ \A t \in txs' \ txs : t.fundId = link
             /\ last'.op = "addExpense" => OtherFundsKept({link})]_vars

\* Two records carry the same linking value: the same referenceNumber (0 is
\* a record without one) or the same description.
Linked(a, b) ==
    \/ a.referenceNumber # 0 /\ a.referenceNumber = b.referenceNumber
    \/ /\ "description" \in DOMAIN a /\ "description" \in DOMAIN b
       /\ a.description = b.description

\* C29: the two Transaction records of one committed transferFunds call
\* carry the same linking reference (identical description or reference
\* value), and no record of another operation carries it, so that each leg
\* can be matched to its counterpart and to no leg of another transfer.
C29_TransferLegsLinked ==
    [][(Answers("transferFunds") /\ last'.committed) =>
          \E out \in txs' \ txs, in \in txs' \ txs :
              /\ out.type = "Withdrawal" /\ in.type = "Investment"
              /\ Linked(out, in)
              /\ \A t \in txs : ~Linked(t, out) /\ ~Linked(t, in)]_vars

\* C30: a committed addDeposit whose initial status is not completed
\* records the deposit with balanceAfter = balanceBefore and changes no fund
\* and no member; until it is approved no committed edit of it changes a
\* fund or a member; a committed approveDeposit credits the amount to the
\* fund and to the member the record references at that time.
C30_CreditDeferredToApproval ==
    [][(Ready /\ last'.committed) =>
          /\ (last'.op = "addDeposit"
                /\ ~IsCompleted(StoredDepositStatus(last'.args.status))) =>
                /\ UNCHANGED <<funds, members>>
                /\ \E t \in txs' \ txs :
                      /\ txs' = txs \cup {t}
                      /\ t.status = last'.args.status
                      /\ t.snapshot[2] = t.snapshot[1]
          /\ (last'.op = "editDeposit"
                /\ ~IsCompleted(TxById(last'.args.tx).status)) =>
                UNCHANGED <<funds, members>>
          /\ last'.op = "approveDeposit" =>
                LET t == TxById(last'.args.tx)
                IN /\ ~IsCompleted(t.status)
                   /\ funds' = CreditFund(funds, t.fundId, t.amount)
                   /\ members' = CreditMember(members, t.memberId, t.amount)
                   /\ \E u \in txs' : u.id = t.id /\ u.status = "Completed"]_vars

\* A deposit recorded as pending, then moved to member M2 by an edit with
\* amount 400.50 (stored as 400.00), was approved and credited to M2.
C30_EditedPendingDepositApproved ==
    /\ last.op = "approveDeposit" /\ last.committed
    /\ \E t \in txs :
          /\ t.id = last.args.tx /\ t.status = "Completed"
          /\ t.type = "Deposit" /\ t.snapshot[2] = t.snapshot[1]
          /\ t.amount = 40000 /\ t.memberId = "M2"
          /\ members["M2"].totalContributed = 40000
          /\ members["M1"].totalContributed = 0

\* A session commits in this step: it has made all its writes and closes.
Commits(s) ==
    /\ sessions[s].pc = "writing" /\ sessions[s].todo = << >>
    /\ sessions'[s].pc = "closed"

\* C31: when approveDeposit requests for the same pending deposit are served
\* concurrently, the fund and the member are credited exactly once in total
\* and at most one request succeeds: an approval commits only while the
\* committed record is still not completed, it then credits the record's
\* fund and member by the record's amount and completes the record, and no
\* other step changes a fund or a member.
C31_ConcurrentApprovalsCreditOnce ==
    [][IF \E s \in SessionIds : Commits(s)
       THEN \E s \in SessionIds :
              /\ Commits(s)
              /\ LET t == TxById(sessions[s].req.tx)
                 IN /\ ~IsCompleted(t.status)
                    /\ funds' = CreditFund(funds, t.fundId, t.amount)
                    /\ members' = CreditMember(members, t.memberId, t.amount)
                    /\ txs' = (txs \ {t}) \cup {ApprovedTx(t, Admin)}
       ELSE UNCHANGED <<funds, members, txs>>]_vars

\* Two approvals of deposit 2 were open together; one committed and credited
\* the member once, the other was aborted on its write.
C31_SecondApprovalAborted ==
    /\ last.op = "approveDeposit" /\ last.error = "writeConflict"
    /\ \A s \in SessionIds : sessions[s].pc = "closed"
    /\ TxById(2).status = "Completed" /\ TxById(3).status = "Pending"
    /\ members["M1"].totalContributed =
          NewMember(1, "active").totalContributed + TxById(2).amount

\* C32: editExpense is undo-then-redo.  An edit that keeps the fund and the
\* project of an expense of amount a and asks for amount b (not refused as
\* a general expense on a project fund, and its audit entry written)
\* succeeds exactly when balance + a >= b; it then changes the fund by
\* -(b - a), the project's currentFundBalance by -(b - a) and its
\* totalExpenses by b - a, and stores b; a refused edit leaves funds,
\* projects and transactions unchanged.
C32_EditExpenseIsUndoThenRedo ==
    [][Answers("editExpense") =>
       \A id \in TxIds, b \in AmountArgs, f \in FundIds, p \in ProjectArgs,
          env \in EnvNoAudit :
          LET t == TxById(id)
              a == t.amount
          IN (/\ t.type = "Expense"
              /\ p = t.projectId /\ ExpenseFund(f, p) = t.fundId
              /\ ~GeneralOnProjectFund(funds[t.fundId], p)
              /\ editExpense(id, b, f, p, Admin, env)) =>
                IF funds[t.fundId].balance + a >= b
                THEN /\ last'.committed
                     /\ funds' = [funds EXCEPT
                                    ![t.fundId].balance = @ - (b - a)]
                     /\ txs' = (txs \ {t}) \cup {[t EXCEPT !.amount = b]}
                     /\ projects' =
                          IF p = None THEN projects
                          ELSE [projects EXCEPT
                                  ![p].currentFundBalance = @ - (b - a),
                                  ![p].totalExpenses = @ + (b - a)]
                ELSE /\ ~last'.committed
                     /\ UNCHANGED <<funds, projects, txs>>]_vars

\* A project expense of 400.50 on the project fund was edited to 0 and the
\* 400.50 went back to the fund and to the project.
C32_ProjectExpenseShrunk ==
    /\ last.op = "editExpense" /\ last.committed
    /\ last.args.project = "P1" /\ last.args.amount = 0
    /\ \E t \in txs : t.id = last.args.tx /\ t.fundId = "PF" /\ t.amount = 0
    /\ Len(projects["P1"].updates) = 1
    /\ projects["P1"].updates[1].amount = 40050
    /\ projects["P1"].totalExpenses = 0
    /\ funds["PF"].balance = EditInvestment

\* The amount of a record as it counts for its fund: inflows (Deposit,
\* Earning, Investment) positive, outflows (Expense, Withdrawal, Dividend,
\* Adjustment) negative, records that are not Success/Completed and other
\* types not at all.
SignedAmount(t) ==
    IF ~IsCompleted(t.status) THEN 0
    ELSE IF t.type \in {"Deposit", "Earning", "Investment"} THEN t.amount
    ELSE IF t.type \in {"Expense", "Withdrawal", "Dividend", "Adjustment"}
    THEN -t.amount
    ELSE 0

\* Inflows minus outflows of the fund's completed records.
NetOfCompleted(f) ==
    LET ids == {t.id : t \in {u \in txs : u.fundId = f}}
    IN SumOver(ids, [i \in ids |-> SignedAmount(TxById(i))])

\* The distance between the fund's stored balance and that net, in cents.
Discrepancy(f) ==
    LET d == NetOfCompleted(f) - funds[f].balance
    IN IF d < 0 THEN -d ELSE d

\* C33: reconcileFund on an existing fund answers with a success response
\* whatever it finds, and stamps the fund VERIFIED when the stored balance
\* equals the net of the fund's Success/Completed inflows and outflows and
\* DISCREPANCY when the two differ by more than 0.01 (at a distance of
\* exactly 0.01 the claim's tolerance admits either stamp).
C33_ReconcileStampsMatch ==
    [][(Answers("reconcileFund") /\ last'.committed) =>
          LET f == last'.args.fund
              stamp == funds'[f].reconciliationStatus
          IN /\ last'.ok /\ last'.error = NoError
             /\ stamp \in {"VERIFIED", "DISCREPANCY"}
             /\ Discrepancy(f) = 0 => stamp = "VERIFIED"
             /\ Discrepancy(f) > 1 => stamp = "DISCREPANCY"]_vars

\* A reconciliation found the fund short of the net of its records, stamped
\* it DISCREPANCY and answered with a success response.
C33_DiscrepancyReturnedAsData ==
    /\ last.op = "reconcileFund" /\ last.ok
    /\ funds[last.args.fund].reconciliationStatus = "DISCREPANCY"
    /\ Discrepancy(last.args.fund) > 1

\* The entries of a batch are all valid: members that exist, positive
\* amounts, no member twice (the entries share the batch's month).
BatchValid(deps) ==
    /\ \A i \in 1..Len(deps) :
          deps[i].member \in DOMAIN members /\ deps[i].amount > 0
    /\ \A i, j \in 1..Len(deps) : i # j => deps[i].member # deps[j].member

\* The sum of the batch's amounts for member m.
BatchShare(deps, m) ==
    LET I == {i \in 1..Len(deps) : deps[i].member = m}
    IN SumOver(I, [i \in I |-> deps[i].amount])

C35_FundBalancesNotNegative == \A f \in DOMAIN funds : funds[f].balance >= 0

\* C36: member holdings never go negative, and an operation that would
\* drive them below zero is rejected as a whole.  After every step each
\* member's totalContributed and shares are >= 0; a request that does not
\* commit changes nothing; a deletion that commits on a completed deposit
\* of a member finds the member holding at least the deposit's amount.
C36_HoldingsNotNegative ==
    [][/\ \A m \in DOMAIN members' :
             members'[m].totalContributed >= 0 /\ members'[m].shares >= 0
       /\ (Ready /\ ~last'.committed) =>
             UNCHANGED <<funds, members, projects, txs, deleted>>
       /\ (Answers("deleteTransaction") /\ last'.committed) =>
             LET t == TxById(last'.args.tx)
             IN (/\ t.type = "Deposit" /\ IsCompleted(t.status)
                 /\ t.memberId \in DOMAIN members) =>
                   members[t.memberId].totalContributed >= t.amount]_vars

\* The deletion of a completed deposit was refused by the member's
\* validator: the member had passed the contribution on by transferEquity
\* and holds less than the deposit's amount.
C36_DeletionAfterTransferRefused ==
    /\ last.op = "deleteTransaction" /\ last.error = "validation"
    /\ ~last.committed
    /\ \E t \in txs, e \in txs :
          /\ t.type = "Deposit" /\ IsCompleted(t.status)
          /\ t.memberId \in DOMAIN members
          /\ members[t.memberId].totalContributed < t.amount
          /\ e.type = "Equity-Transfer" /\ e.memberId = t.memberId

\* C37: reconcileFund reports no false discrepancy under concurrency: in a
\* ledger where every fund's balance equals the net of its completed
\* records in every committed state, a reconciliation stamps VERIFIED even
\* when a deposit or an expense on the fund commits between its read of the
\* fund and its aggregation of the transactions.
C37_NoFalseDiscrepancy ==
    [][\A s \in SessionIds :
          (/\ sessions[s].pc = "aggregating" /\ sessions'[s].pc = "closed"
           /\ \A g \in DOMAIN funds : Discrepancy(g) = 0) =>
             funds'[sessions[s].req.fund].reconciliationStatus = "VERIFIED"]_vars

\* The ledger of the reconciliation runs is consistent in every state.
C37_LedgerConsistent == \A g \in DOMAIN funds : Discrepancy(g) = 0

\* The sum of the amounts of the records the step creates.
Disbursed ==
    LET ids == {t.id : t \in txs' \ txs}
    IN SumOver(ids, [i \in ids |-> (CHOOSE t \in txs' : t.id = i).amount])

\* C38: for every committed distributeDividends (the amount in whole
\* cents) the undistributed residual, requested amount minus the sum of
\* the rewards paid, satisfies 0 <= residual < 0.01 * N, N the number of
\* active members with shares > 0; no record is written for a reward of
\* zero, and the pool is debited by the rewards paid only.
C38_ResidualBelowCentPerMember ==
    [][(Answers("distributeDividends") /\ last'.committed) =>
          LET a == last'.args
              residual == a.amount - Disbursed
              N == Cardinality(ActiveHolders(members))
          IN /\ 0 <= residual /\ residual < N
             /\ \A t \in txs' \ txs : t.type = "Dividend" /\ t.amount > 0
             /\ Cardinality(txs' \ txs) <= N
             /\ IF a.type = "Project"
                THEN projects'[a.project].currentFundBalance =
                       projects[a.project].currentFundBalance - Disbursed
                ELSE funds'[a.fund].balance =
                       funds[a.fund].balance - Disbursed]_vars

\* The Withdrawal createProject recorded on the source fund of project p.
FundingWithdrawals(p) ==
    {t \in txs : t.projectId = p /\ t.type = "Withdrawal"}

\* Project p was created with an initial investment taken from fund f and
\* nothing has touched it or f's ledger since: the project fund still holds
\* the investment and f's balance equals the net of its completed records.
JustFunded(p, f) ==
    /\ p \in DOMAIN projects
    /\ projects[p].initialInvestment > 0
    /\ projects[p].linkedFundId \in DOMAIN funds
    /\ funds[projects[p].linkedFundId].balance = projects[p].initialInvestment
    /\ \E t \in FundingWithdrawals(p) :
          t.fundId = f /\ t.amount = projects[p].initialInvestment
    /\ Discrepancy(f) = 0

\* C39: deleteProject on a project that was created with an initial
\* investment brings the enterprise source fund back to its balance before
\* the creation, and that balance still equals the net of the fund's
\* Success/Completed records.
C39_SourceFundStaysReconcilable ==
    [][\A f \in DOMAIN funds, p \in DOMAIN projects :
          (Answers("deleteProject") /\ last'.committed
           /\ last'.args.project = p /\ JustFunded(p, f))
          => /\ funds'[f].balance =
                  funds[f].balance + projects[p].initialInvestment
             /\ Discrepancy(f)' = 0]_vars

\* A funded project was terminated right after its creation.
C39_FundedProjectTerminated ==
    /\ last.op = "deleteProject" /\ last.committed
    /\ \E t \in txs : t.type = "Investment" /\ t.fundId = "F1"
                      /\ t.projectId = None
    /\ funds["F1"].balance = OpeningBalance
    /\ Cardinality(txs) = 2

\* C40: recalculateMemberFinancials changes no member's totalContributed
\* when the totals were produced by deposits, approvals, deletions and
\* equity transfers; after a transferEquity both the source and the target
\* keep their post-transfer totals.
C40_RecalculationKeepsTotals ==
    [][Answers("recalculateMemberFinancials")
       => \A m \in DOMAIN members :
             members'[m].totalContributed = members[m].totalContributed]_vars

\* The recalculation ran on members holding what an equity transfer left.
C40_RecalculatedAfterTransfer ==
    /\ last.op = "recalculateMemberFinancials"
    /\ \E t \in txs : t.type = "Equity-Transfer"


====
